---- MODULE Spec2Model ----
(***************************************************************************)
(* BatteryGuardian: the power-event monitoring subsystem.                  *)
(*                                                                         *)
(* The model follows batteryguardian/main.py (the supervisor loop),        *)
(* batteryguardian/modules/utils.py (start_monitoring, the callback        *)
(* process_battery_event, check_monitoring_threads, get_sleep_duration),   *)
(* batteryguardian/modules/notification.py (should_throttle,               *)
(* notify_status_change) and the four event backends.                      *)
(*                                                                         *)
(* Threads: "main" runs start_monitoring and then the poll loop; "worker"  *)
(* is the retained backend's background worker; the Refreshers are the     *)
(* short-lived threads a backend spawns for a background status update.    *)
(***************************************************************************)
EXTENDS Integers, Sequences, FiniteSets, TLC

VARIABLES
    pc,                      \* position of every thread
    ev,                      \* per-thread locals of one policy evaluation
    attempts,                \* history: <<backend, init succeeded>> in order tried
    retained,                \* the backend start_monitoring kept ("none" if none)
    monitoring_started,      \* main.py:217
    MONITORING_THREADS,      \* utils.py:24, the registry of thread names
    workerAlive,             \* is_alive() of the retained backend's worker
    event_monitoring_failed, \* main.py:220
    monitoring_check_counter,\* main.py:221 (only its residue mod 10 is ever read)
    warnLog,                 \* history: "has stopped working" warnings logged
    recoverLog,              \* history: "has recovered" messages logged
    checkResults,            \* history: results of the health checks made
    state,                   \* the dict the name `state` in _main_impl is bound to
    stateIsShared,           \* TRUE until main.py:255 rebinds `state` to a new dict
    sharedState,             \* the dict handed to start_monitoring (callbacks' closure)
    sleep_duration,          \* main.py:268-284
    BG_CURRENT_SLEEP,        \* utils.py:328/338, the stored back-off interval
    LAST_NOTIFICATION,       \* notification.py:21
    sentLast,                \* history: time of the last delivery of each kind
    dupSent,                 \* history: kinds delivered twice within one cooldown
    brightness,              \* the level last handed to the brightness sink
    envPercent, envAc,       \* the machine's actual battery percent and AC state
    envChanges,              \* number of physical changes so far
    clock,                   \* time.time(), in seconds
    last_ac_online,          \* fast_power_monitor.py:222 last_status["ac_online"]
    acGen,                   \* history: number of AC changes the sysfs poller saw
    appliedGen,              \* history: generation of the last applied sysfs update
    staleApplied,            \* history: an older sysfs update applied after a newer
    obsHist,                 \* history: <<observation before last, last observation>>
    lastWrite,               \* history: the record written by the latest update
    signals,                 \* number of backend signals delivered so far
    inEval,                  \* threads currently inside policy evaluation
    partialOwed,             \* fast partial updates not yet followed by a full refresh
    config,                  \* main.py:204, the dict load_config returned
    call,                    \* history: the last call of a function, with its outcome
    reader,                  \* battery.py:22-28 and the files and service it reads
    lock_file,               \* content of battery-guardian.lock (utils.py:84)
    instance                 \* per started process: its position and the PID it read

vars == <<pc, ev, attempts, retained, monitoring_started, MONITORING_THREADS,
          workerAlive, event_monitoring_failed, monitoring_check_counter,
          warnLog, recoverLog, checkResults, state, stateIsShared, sharedState,
          sleep_duration, BG_CURRENT_SLEEP, LAST_NOTIFICATION, sentLast, dupSent,
          brightness, envPercent, envAc, envChanges, clock, last_ac_online,
          acGen, appliedGen, staleApplied, obsHist, lastWrite, signals, inEval,
          partialOwed, config, call, reader, lock_file, instance>>

----------------------------------------------------------------------------
(* Bounds of the model *)

MaxEnvChanges == 1
MaxClock == 300
TickSeconds == 300
MaxSignals == 1
MaxChecks == 3
MaxPolls == 1
NotifyStep == 200
MaxNotifyClock == 400

(* Program constants: config.py get_default_config and main.py literals *)

critical_threshold == 10
low_threshold == 20
full_battery_threshold == 90
notification_cooldown == 300
backoff_initial == 10
backoff_max == 300
backoff_factor == 2
critical_polling == 30
CheckEvery == 10
MinSleep == 10
SafeDefaultSleep == 30
EventFloor == 60

PercentValues == {5, 50}
AcValues == {"Connected", "Disconnected"}
AcStatus == AcValues \cup {"Unknown"}
Kinds == {"critical", "low", "full", "ac_connected", "ac_disconnected"}
Refreshers == {"r1", "r2", "r3"}
Threads == {"main", "worker"} \cup Refreshers
Absent == -1

\* A Python float (7.5, 30.0): isinstance(_, int) is False and str() of it is a
\* string int() rejects, whatever its value, so one marker stands for all.
NonInteger == -2
\* The call ended by raising ValueError (int() of utils.py:328).
Raised == -3

\* config.py:68-99: the defaults, the factor as a fraction (den = 1: an int).
DefaultConfig ==
    [critical_threshold |-> critical_threshold,
     low_threshold |-> low_threshold,
     full_battery_threshold |-> full_battery_threshold,
     critical_polling |-> critical_polling,
     backoff_initial |-> backoff_initial,
     backoff_max |-> backoff_max,
     backoff_factor |-> [num |-> backoff_factor, den |-> 1]]

\* tests/test_battery_guardian.py:109-113: backoff_initial 5, backoff_max 30,
\* backoff_factor 1.5, the other keys left to their defaults.
TestConfig ==
    [critical_threshold |-> critical_threshold,
     low_threshold |-> low_threshold,
     full_battery_threshold |-> full_battery_threshold,
     critical_polling |-> critical_polling,
     backoff_initial |-> 5,
     backoff_max |-> 30,
     backoff_factor |-> [num |-> 3, den |-> 2]]

Configs == {DefaultConfig, TestConfig}

\* config.py:164-166: a user file may set the three thresholds to any numbers,
\* in any order; here all equal, and in the reverse of the default order.
EqualThresholds ==
    [DefaultConfig EXCEPT !.critical_threshold = 20, !.low_threshold = 20,
                          !.full_battery_threshold = 20]
ReversedThresholds ==
    [DefaultConfig EXCEPT !.critical_threshold = 90, !.low_threshold = 20,
                          !.full_battery_threshold = 10]
ThresholdConfigs == {DefaultConfig, EqualThresholds, ReversedThresholds}

\* The battery percents a caller may pass: the ends of the scale, the
\* thresholds and their neighbours.
PercentInputs == {0, 5, 10, 11, 20, 21, 50, 89, 90, 100}

NoCall == [fn |-> "none"]

\* What an open() and read() of a file meets: no such file, an OSError
\* (permission denied, device gone), bytes that are not UTF-8, or a text, here
\* a sequence of characters.
NoFile == [kind |-> "missing", text |-> <<>>]
Unreadable == [kind |-> "unreadable", text |-> <<>>]
Undecodable == [kind |-> "undecodable", text |-> <<>>]
Text(t) == [kind |-> "text", text |-> t]

\* /sys/class/power_supply/BAT*/capacity (battery.py:106, 122): "sup2" is the
\* character SUPERSCRIPT TWO, a digit for str.isdigit and not for int().
CapacityFiles ==
    {NoFile, Unreadable, Undecodable, Text(<<>>), Text(<<"5", "0", "nl">>),
     Text(<<"1", "5", "0", "nl">>), Text(<<"-", "5", "nl">>), Text(<<"sup2", "nl">>)}

\* /sys/class/power_supply/AC*/online (battery.py:161, 178).
OnlineFiles ==
    {NoFile, Unreadable, Undecodable, Text(<<"1", "nl">>), Text(<<"0", "nl">>),
     Text(<<"x">>)}

\* /sys/class/power_supply/BAT*/status (battery.py:196), the status word as one
\* element.
StatusFiles ==
    {NoFile, Unreadable, Undecodable, Text(<<"Charging", "nl">>),
     Text(<<"Full", "nl">>), Text(<<"Discharging", "nl">>), Text(<<"Unknown", "nl">>)}

\* upower.py:304-374 and battery.py:28: the service is absent when the module
\* is imported, or a later query fails (None is returned), or it reports a
\* Percentage and an AC status.
UPowerAbsent == [kind |-> "unavailable", percent |-> 0, ac |-> "Unknown"]
UPowerFails == [kind |-> "fails", percent |-> 0, ac |-> "Unknown"]
UPowerReports(percent, ac) == [kind |-> "pair", percent |-> percent, ac |-> ac]
UPowerAnswers ==
    {UPowerFails, UPowerReports(50, "Connected"), UPowerReports(100, "Disconnected"),
     UPowerReports(150, "Unknown")}

\* battery.py:22, 25: the caches are None until a read succeeds.
QuietReader ==
    [upower |-> UPowerAbsent, capacity |-> NoFile, online |-> NoFile,
     status |-> NoFile, BATTERY_PATH |-> FALSE, AC_ADAPTER_PATH |-> FALSE]

\* The processes started (named by their PIDs), and what the lock file may
\* hold besides one of their PIDs: nothing (no file), the PID of a process
\* that no longer runs, or a text that is no number.
Instances == {"pid_a", "pid_b"}
LockAbsent == "absent"
StalePid == "pid_gone"
BadText == "not_a_number"
NotStarted == [pc |-> "none", pid |-> LockAbsent]

\* One process holds the lock and runs the loop; no other is started.
QuietLock == [p \in Instances |-> IF p = "pid_a" THEN [pc |-> "loop", pid |-> LockAbsent]
                                  ELSE NotStarted]

InitialRecord == [bp |-> 0, ac |-> "Unknown", pbp |-> 0, pac |-> "Unknown"]
NoEval == [bp |-> 0, ac |-> "Unknown", pbp |-> 0, pac |-> "Unknown",
           kinds |-> <<>>, ct |-> 0, role |-> "none", gen |-> 0]

Max(a, b) == IF a >= b THEN a ELSE b
Min(a, b) == IF a <= b THEN a ELSE b
Dist(a, b) == IF a >= b THEN a - b ELSE b - a

----------------------------------------------------------------------------
(* Pure functions *)

\* Mutant of NotifyKinds: the critical test on the level alone, the condition
\* on the previous percent (notification.py:108) left out.
NotifyKindsOnLevel(bp, pbp, ac, pac) ==
    LET level ==
            IF bp <= config.critical_threshold
              THEN <<"critical">>
            ELSE IF bp <= config.low_threshold /\ bp > config.critical_threshold
                    /\ pbp > config.low_threshold
              THEN <<"low">>
            ELSE IF bp >= config.full_battery_threshold
                    /\ pbp < config.full_battery_threshold /\ ac = "Connected"
              THEN <<"full">>
            ELSE <<>>
        power ==
            IF ac # pac
              THEN IF ac = "Connected" THEN <<"ac_connected">>
                   ELSE IF ac = "Disconnected" /\ pac = "Connected"
                     THEN <<"ac_disconnected">>
                   ELSE <<>>
              ELSE <<>>
    IN level \o power

\* Mutant of NotifyKinds: both AC kinds attempted on any change of AC status.
NotifyKindsBothAc(bp, pbp, ac, pac) ==
    LET level ==
            IF bp <= config.critical_threshold /\ pbp > config.critical_threshold
              THEN <<"critical">>
            ELSE IF bp <= config.low_threshold /\ bp > config.critical_threshold
                    /\ pbp > config.low_threshold
              THEN <<"low">>
            ELSE IF bp >= config.full_battery_threshold
                    /\ pbp < config.full_battery_threshold /\ ac = "Connected"
              THEN <<"full">>
            ELSE <<>>
        power == IF ac # pac THEN <<"ac_connected", "ac_disconnected">> ELSE <<>>
    IN level \o power

\* Mutant of NotifyKinds: the AC test chained to the level tests by elif.
NotifyKindsOneChain(bp, pbp, ac, pac) ==
    IF bp <= config.critical_threshold /\ pbp > config.critical_threshold
      THEN <<"critical">>
    ELSE IF bp <= config.low_threshold /\ bp > config.critical_threshold
            /\ pbp > config.low_threshold
      THEN <<"low">>
    ELSE IF bp >= config.full_battery_threshold
            /\ pbp < config.full_battery_threshold /\ ac = "Connected"
      THEN <<"full">>
    ELSE IF ac # pac
      THEN IF ac = "Connected" THEN <<"ac_connected">>
           ELSE IF ac = "Disconnected" /\ pac = "Connected"
             THEN <<"ac_disconnected">>
           ELSE <<>>
    ELSE <<>>

\* Mutant of NotifyKinds: the low test on the level alone, the condition on the
\* previous percent (notification.py:127) left out.
NotifyKindsLowOnLevel(bp, pbp, ac, pac) ==
    LET level ==
            IF bp <= config.critical_threshold /\ pbp > config.critical_threshold
              THEN <<"critical">>
            ELSE IF bp <= config.low_threshold /\ bp > config.critical_threshold
              THEN <<"low">>
            ELSE IF bp >= config.full_battery_threshold
                    /\ pbp < config.full_battery_threshold /\ ac = "Connected"
              THEN <<"full">>
            ELSE <<>>
        power ==
            IF ac # pac
              THEN IF ac = "Connected" THEN <<"ac_connected">>
                   ELSE IF ac = "Disconnected" /\ pac = "Connected"
                     THEN <<"ac_disconnected">>
                   ELSE <<>>
              ELSE <<>>
    IN level \o power

\* notification.py:105-168: the kinds notify_status_change attempts, in order,
\* with the thresholds of the configuration (notification.py:106-108).
NotifyKinds(bp, pbp, ac, pac) ==
    LET level ==
            IF bp <= config.critical_threshold /\ pbp > config.critical_threshold
              THEN <<"critical">>
            ELSE IF bp <= config.low_threshold /\ bp > config.critical_threshold
                    /\ pbp > config.low_threshold
              THEN <<"low">>
            ELSE IF bp >= config.full_battery_threshold
                    /\ pbp < config.full_battery_threshold /\ ac = "Connected"
              THEN <<"full">>
            ELSE <<>>
        power ==
            IF ac # pac
              THEN IF ac = "Connected" THEN <<"ac_connected">>
                   ELSE IF ac = "Disconnected" /\ pac = "Connected"
                     THEN <<"ac_disconnected">>
                   ELSE <<>>
              ELSE <<>>
    IN level \o power

\* notification.py:71-81: the test should_throttle makes at time now.
Throttled(kind, now) ==
    /\ LAST_NOTIFICATION[kind] # Absent
    /\ now - LAST_NOTIFICATION[kind] < notification_cooldown

\* utils.py:328: the stored interval, or backoff_initial when none is stored.
StoredSleep ==
    IF BG_CURRENT_SLEEP = Absent THEN config.backoff_initial ELSE BG_CURRENT_SLEEP

\* utils.py:336: min(current_sleep * backoff_factor, backoff_max). With a float
\* factor the product is a float, which min returns unless backoff_max is
\* smaller.
GrownSleep ==
    LET num == StoredSleep * config.backoff_factor.num
        den == config.backoff_factor.den
    IN IF den = 1 THEN Min(num, config.backoff_max)
       ELSE IF num <= config.backoff_max * den THEN NonInteger
       ELSE config.backoff_max

\* Mutant of get_sleep_duration: the critical test written with < for <=.
GetSleepDurationStrictCritical(battery_percent, has_changed) ==
    IF battery_percent < config.critical_threshold THEN config.critical_polling
    ELSE IF BG_CURRENT_SLEEP = NonInteger THEN Raised
    ELSE IF has_changed = 1 THEN config.backoff_initial
    ELSE GrownSleep

\* Mutant of get_sleep_duration: the stored interval returned without growth.
GetSleepDurationNoGrowth(battery_percent, has_changed) ==
    IF battery_percent <= config.critical_threshold THEN config.critical_polling
    ELSE IF BG_CURRENT_SLEEP = NonInteger THEN Raised
    ELSE IF has_changed = 1 THEN config.backoff_initial
    ELSE StoredSleep

\* Mutant of get_sleep_duration: growth only once an interval is stored.
GetSleepDurationFirstCallInitial(battery_percent, has_changed) ==
    IF battery_percent <= config.critical_threshold THEN config.critical_polling
    ELSE IF BG_CURRENT_SLEEP = NonInteger THEN Raised
    ELSE IF has_changed = 1 \/ BG_CURRENT_SLEEP = Absent THEN config.backoff_initial
    ELSE GrownSleep

\* utils.py:323-340: get_sleep_duration's return value (Raised: the int() of
\* line 328 rejects the stored string).
get_sleep_duration(battery_percent, has_changed) ==
    IF battery_percent <= config.critical_threshold THEN config.critical_polling
    ELSE IF BG_CURRENT_SLEEP = NonInteger THEN Raised
    ELSE IF has_changed = 1 THEN config.backoff_initial
    ELSE GrownSleep

\* Mutant of StoredAfter: the ceiling applied to the returned value only, the
\* uncapped product stored.
StoredAfterUncapped(battery_percent, has_changed) ==
    IF battery_percent <= config.critical_threshold THEN BG_CURRENT_SLEEP
    ELSE IF has_changed = 1 THEN config.backoff_initial
    ELSE StoredSleep * config.backoff_factor.num

\* utils.py:323-338: the value get_sleep_duration leaves in BG_CURRENT_SLEEP.
StoredAfter(battery_percent, has_changed) ==
    IF battery_percent <= config.critical_threshold THEN BG_CURRENT_SLEEP
    ELSE IF get_sleep_duration(battery_percent, has_changed) = Raised
      THEN BG_CURRENT_SLEEP
    ELSE get_sleep_duration(battery_percent, has_changed)

\* main.py:273: not isinstance(sleep_duration, int) or sleep_duration < 10.
InvalidSleep(d) == d = NonInteger \/ d < MinSleep

\* Mutant of ValidatedSleep: the validation of main.py:273-278 left out.
ValidatedSleepUnchecked(d) == d

\* main.py:273-278: an invalid value is replaced by the safe default.
ValidatedSleep(d) == IF InvalidSleep(d) THEN SafeDefaultSleep ELSE d

\* Mutant of FlooredSleep: the floor of main.py:281-284 left out.
FlooredSleepNoFloor(d, started, failed) == d

\* Mutant of FlooredSleep: the floor applied whenever monitoring was started,
\* the failed flag of main.py:281 not consulted.
FlooredSleepWhenStarted(d, started, failed) ==
    IF started THEN Max(d, EventFloor) ELSE d

\* main.py:281-284: the floor applied while event monitoring is trusted.
FlooredSleep(d, started, failed) ==
    IF started /\ ~failed THEN Max(d, EventFloor) ELSE d

\* Mutant of get_target_brightness: the levels of the last pair and of the
\* floor exchanged.
GetTargetBrightnessSwappedFloor(battery_percent, ac_status) ==
    IF ac_status = "Connected" THEN 100
    ELSE IF battery_percent >= 85 THEN 95
    ELSE IF battery_percent >= 70 THEN 85
    ELSE IF battery_percent >= 60 THEN 70
    ELSE IF battery_percent >= 50 THEN 60
    ELSE IF battery_percent >= 30 THEN 45
    ELSE IF battery_percent >= 20 THEN 35
    ELSE IF battery_percent >= critical_threshold THEN 15
    ELSE 25

\* Mutant of get_target_brightness: the thresholds compared with > for >=.
GetTargetBrightnessStrict(battery_percent, ac_status) ==
    IF ac_status = "Connected" THEN 100
    ELSE IF battery_percent > 85 THEN 95
    ELSE IF battery_percent > 70 THEN 85
    ELSE IF battery_percent > 60 THEN 70
    ELSE IF battery_percent > 50 THEN 60
    ELSE IF battery_percent > 30 THEN 45
    ELSE IF battery_percent > 20 THEN 35
    ELSE IF battery_percent > critical_threshold THEN 25
    ELSE 15

\* src/modules/brightness.py:53-103 get_target_brightness, default levels.
get_target_brightness(battery_percent, ac_status) ==
    IF ac_status = "Connected" THEN 100
    ELSE IF battery_percent >= 85 THEN 95
    ELSE IF battery_percent >= 70 THEN 85
    ELSE IF battery_percent >= 60 THEN 70
    ELSE IF battery_percent >= 50 THEN 60
    ELSE IF battery_percent >= 30 THEN 45
    ELSE IF battery_percent >= 20 THEN 35
    ELSE IF battery_percent >= critical_threshold THEN 25
    ELSE 15

\* str.strip(): white space removed at both ends.
Whitespace == {"nl", " "}

RECURSIVE StripLeft(_)
StripLeft(t) ==
    IF t # <<>> /\ Head(t) \in Whitespace THEN StripLeft(Tail(t)) ELSE t

RECURSIVE StripRight(_)
StripRight(t) ==
    IF t # <<>> /\ t[Len(t)] \in Whitespace
      THEN StripRight(SubSeq(t, 1, Len(t) - 1))
      ELSE t

Strip(t) == StripRight(StripLeft(t))

\* str.isdigit(): not empty and every character a digit, the superscripts
\* among them; int() takes the decimal digits only and raises ValueError on
\* any other.
DecimalDigits == <<"0", "1", "2", "3", "4", "5", "6", "7", "8", "9">>
IsDecimal(c) == \E i \in DOMAIN DecimalDigits : DecimalDigits[i] = c
isdigit(t) == t # <<>> /\ \A i \in DOMAIN t : IsDecimal(t[i]) \/ t[i] = "sup2"
DigitValue(c) == (CHOOSE i \in DOMAIN DecimalDigits : DecimalDigits[i] = c) - 1

RECURSIVE ToInt(_)
ToInt(t) ==
    IF t = <<>> THEN 0
    ELSE 10 * ToInt(SubSeq(t, 1, Len(t) - 1)) + DigitValue(t[Len(t)])

\* battery.py:105-117 (and 126-141): the capacity file opened, read and parsed;
\* Absent when the block returns nothing (OSError and ValueError are caught,
\* UnicodeDecodeError and the ValueError of int() among the latter).
ParseCapacity(file) ==
    IF file.kind # "text" THEN Absent
    ELSE LET percent == Strip(file.text)
         IN IF percent # <<>> /\ isdigit(percent)
              THEN IF \A i \in DOMAIN percent : IsDecimal(percent[i])
                     THEN ToInt(percent)
                     ELSE Absent
              ELSE Absent

\* battery.py:94-145 get_battery_percentage: the cached path first, then the
\* search, which caches the path; 0 when both fail.
get_battery_percentage(r) ==
    LET first == IF r.BATTERY_PATH THEN ParseCapacity(r.capacity) ELSE Absent
        second == ParseCapacity(r.capacity)
    IN IF first # Absent THEN [percent |-> first, BATTERY_PATH |-> r.BATTERY_PATH]
       ELSE IF second # Absent THEN [percent |-> second, BATTERY_PATH |-> TRUE]
       ELSE [percent |-> 0, BATTERY_PATH |-> r.BATTERY_PATH]

\* battery.py:160-168 (and 180-192): the online file opened and read. Only
\* IOError and OSError are caught, so the UnicodeDecodeError of read() leaves
\* the function ("raised"); "none" when the block returns nothing.
ReadOnline(file) ==
    IF file.kind = "undecodable" THEN "raised"
    ELSE IF file.kind = "text" /\ Strip(file.text) = <<"1">> THEN "Connected"
    ELSE IF file.kind = "text" /\ Strip(file.text) = <<"0">> THEN "Disconnected"
    ELSE "none"

\* str.lower() of the status words.
Lower(word) ==
    CASE word = "Charging" -> "charging"
      [] word = "Full" -> "full"
      [] word = "Discharging" -> "discharging"
      [] word = "Unknown" -> "unknown"
      [] OTHER -> word

\* battery.py:198-206: the status file of the battery, read the same way.
ReadStatus(file) ==
    IF file.kind = "undecodable" THEN "raised"
    ELSE IF file.kind # "text" THEN "none"
    ELSE LET status == Strip(file.text)
         IN IF Len(status) # 1 THEN "none"
            ELSE IF Lower(status[1]) \in {"charging", "full"} THEN "Connected"
            ELSE IF Lower(status[1]) = "discharging" THEN "Disconnected"
            ELSE "none"

\* battery.py:148-208 get_ac_status, with BATTERY_PATH as get_battery_percentage
\* left it: the cached adapter, the search (which caches the adapter), the
\* battery's status file, "Unknown".
get_ac_status(r, battery_path) ==
    LET first == IF r.AC_ADAPTER_PATH THEN ReadOnline(r.online) ELSE "none"
        second == ReadOnline(r.online)
        third == IF battery_path THEN ReadStatus(r.status) ELSE "none"
    IN IF first # "none" THEN [ac |-> first, AC_ADAPTER_PATH |-> r.AC_ADAPTER_PATH]
       ELSE IF second # "none"
         THEN [ac |-> second, AC_ADAPTER_PATH |-> second \in AcValues]
       ELSE IF third # "none" THEN [ac |-> third, AC_ADAPTER_PATH |-> r.AC_ADAPTER_PATH]
       ELSE [ac |-> "Unknown", AC_ADAPTER_PATH |-> r.AC_ADAPTER_PATH]

\* battery.py:69-91 check_battery_status: the pair of the service when it gives
\* one (upower.py:352, 370: int() of the Percentage reported), else the pair
\* of the two file readers, or the exception leaving get_ac_status.
check_battery_status(r) ==
    IF r.upower.kind = "pair"
      THEN [raised |-> FALSE, percent |-> r.upower.percent, ac |-> r.upower.ac,
            BATTERY_PATH |-> r.BATTERY_PATH, AC_ADAPTER_PATH |-> r.AC_ADAPTER_PATH]
      ELSE LET p == get_battery_percentage(r)
               a == get_ac_status(r, p.BATTERY_PATH)
           IN [raised |-> a.ac = "raised", percent |-> p.percent, ac |-> a.ac,
               BATTERY_PATH |-> p.BATTERY_PATH, AC_ADAPTER_PATH |-> a.AC_ADAPTER_PATH]

\* utils.py:515 and the marker threads of utils.py:413-421, which never return.
IsAlive(t) == IF t = "marker" THEN TRUE ELSE workerAlive

\* utils.py:515-523: the registry after pruning; the check's result.
PrunedThreads == {t \in MONITORING_THREADS : IsAlive(t)}
check_monitoring_threads == PrunedThreads # {}

\* The dict the main loop's name `state` denotes.
MainState == IF stateIsShared THEN sharedState ELSE state

----------------------------------------------------------------------------
InitProgram ==
    /\ pc = [t \in Threads |-> IF t = "main" THEN "try_fast"
                               ELSE IF t = "worker" THEN "none" ELSE "free"]
    /\ ev = [t \in Threads |-> NoEval]
    /\ attempts = <<>>
    /\ retained = "none"
    /\ monitoring_started = FALSE
    /\ MONITORING_THREADS = {}
    /\ workerAlive = FALSE
    /\ event_monitoring_failed = FALSE
    /\ monitoring_check_counter = 0
    /\ warnLog = 0
    /\ recoverLog = 0
    /\ checkResults = <<>>
    /\ state = InitialRecord
    /\ stateIsShared = TRUE
    /\ sharedState = InitialRecord
    /\ sleep_duration = 0
    /\ BG_CURRENT_SLEEP = Absent
    /\ LAST_NOTIFICATION = [k \in Kinds |-> Absent]
    /\ sentLast = [k \in Kinds |-> Absent]
    /\ dupSent = FALSE
    /\ brightness = 0
    /\ envPercent \in PercentValues
    /\ envAc \in AcValues
    /\ envChanges = 0
    /\ clock = 0
    /\ last_ac_online = "None"
    /\ acGen = 0
    /\ appliedGen = 0
    /\ staleApplied = FALSE
    /\ obsHist = <<[bp |-> 0, ac |-> "Unknown"], [bp |-> 0, ac |-> "Unknown"]>>
    /\ lastWrite = InitialRecord
    /\ signals = 0
    /\ inEval = {}
    /\ partialOwed = 0
    /\ call = NoCall

\* The program started on a machine whose files and service do not change.
InitLock == lock_file = "pid_a" /\ instance = QuietLock

InitState == InitProgram /\ InitLock /\ reader = QuietReader

\* The program started with the default configuration.
Init == InitState /\ config = DefaultConfig

\* The program started with any of the configurations.
ConfigInit == InitState /\ config \in Configs

----------------------------------------------------------------------------
(* Variable groups *)

supVars == <<attempts, retained, monitoring_started>>
regVars == <<MONITORING_THREADS, workerAlive>>
healthVars == <<event_monitoring_failed, monitoring_check_counter, warnLog,
                recoverLog>>
loopVars == <<state, stateIsShared, sleep_duration, BG_CURRENT_SLEEP>>
notifVars == <<LAST_NOTIFICATION, sentLast, dupSent>>
envVars == <<envPercent, envAc, envChanges, clock>>
sysfsVars == <<last_ac_online, acGen>>
orderVars == <<appliedGen, staleApplied>>
evalVars == <<ev, inEval, obsHist>>
writeVars == <<sharedState, lastWrite, brightness>>
lockVars == <<lock_file, instance>>
checkVars == <<checkResults, lockVars, config, call, reader>>

----------------------------------------------------------------------------
(* start_monitoring: the fallback chain, run by the main thread *)

\* utils.py:417-422 (and 443-448, 469-474): register a marker thread, return True.
RetainWithMarker(backend) ==
    /\ retained' = backend
    /\ monitoring_started' = TRUE
    /\ MONITORING_THREADS' = MONITORING_THREADS \cup {"marker"}
    /\ workerAlive' = TRUE

\* utils.py:404-427: first the fast power monitor (sysfs polling, else D-Bus).
TryFast ==
    /\ pc["main"] = "try_fast"
    /\ \E outcome \in {"fast_sysfs", "fast_dbus", "fail"} :
         /\ attempts' = Append(attempts, <<"fast", outcome # "fail">>)
         /\ IF outcome # "fail"
              THEN /\ RetainWithMarker(outcome)
                   /\ pc' = [pc EXCEPT !["main"] = "health", !["worker"] = "idle"]
              ELSE /\ pc' = [pc EXCEPT !["main"] = "try_upower"]
                   /\ UNCHANGED <<retained, monitoring_started, regVars>>
    /\ UNCHANGED <<healthVars, checkVars, loopVars, notifVars, envVars, sysfsVars,
                   orderVars, evalVars, writeVars, signals, partialOwed>>

\* The record process_battery_event (utils.py:369-378) builds for an observation.
EvalRecord(bp, ac, prev, role, gen) ==
    [bp |-> bp, ac |-> ac, pbp |-> prev.bp, pac |-> prev.ac,
     kinds |-> NotifyKinds(bp, prev.bp, ac, prev.ac), ct |-> 0,
     role |-> role, gen |-> gen]

\* A thread obtains an observation and enters policy evaluation with it.
BeginEval(t, bp, ac, prev, role, gen) ==
    /\ ev' = [ev EXCEPT ![t] = EvalRecord(bp, ac, prev, role, gen)]
    /\ inEval' = inEval \cup {t}
    /\ obsHist' = <<obsHist[2], [bp |-> bp, ac |-> ac]>>

\* utils.py:429-455 with upower.py:69-278: the UPower thread connects, runs the
\* callback on the initial status (upower.py:222-224) and only then sets
\* monitor_ready, for which initialize_upower_monitoring waits.
TryUPower ==
    /\ pc["main"] = "try_upower"
    /\ \E ok \in BOOLEAN :
         IF ok
           THEN /\ BeginEval("worker", envPercent, envAc, sharedState, "init", 0)
                /\ pc' = [pc EXCEPT !["main"] = "wait_upower", !["worker"] = "notify"]
                /\ UNCHANGED attempts
           ELSE /\ attempts' = Append(attempts, <<"upower", FALSE>>)
                /\ pc' = [pc EXCEPT !["main"] = "try_acpid"]
                /\ UNCHANGED evalVars
    /\ UNCHANGED <<retained, monitoring_started, regVars, healthVars, checkVars,
                   loopVars, notifVars, envVars, sysfsVars, orderVars, writeVars,
                   signals, partialOwed>>

\* upower.py:260-272 and utils.py:433-448: monitor_ready is set, Init succeeded.
UPowerReady ==
    /\ pc["main"] = "wait_upower"
    /\ pc["worker"] = "idle"
    /\ attempts' = Append(attempts, <<"upower", TRUE>>)
    /\ RetainWithMarker("upower")
    /\ pc' = [pc EXCEPT !["main"] = "health"]
    /\ UNCHANGED <<healthVars, checkVars, loopVars, notifVars, envVars, sysfsVars,
                   orderVars, evalVars, writeVars, signals, partialOwed>>

\* The slots of the threads the program starts besides the main thread and the
\* retained backend's worker, and the first one not in use.
RefresherOrder == <<"r1", "r2", "r3">>
FreeSlots == {i \in DOMAIN RefresherOrder : pc[RefresherOrder[i]] = "free"}
FirstFree == RefresherOrder[CHOOSE i \in FreeSlots : \A j \in FreeSlots : i <= j]

\* Mutant of UPowerTimeout: the wait of upower.py:260-264 without the test of
\* the elapsed time, so that it ends only when one of the two events is set.
UPowerWaitsWithoutTimeout ==
    /\ pc["main"] = "wait_upower"
    /\ FALSE
    /\ UNCHANGED vars

\* upower.py:258-263: five seconds have passed and the UPower thread has set
\* neither monitor_ready nor monitor_error; initialize_upower_monitoring
\* returns False and start_monitoring goes on with acpid (utils.py:450-455).
\* The thread is not stopped: it goes on as a thread of its own.
UPowerTimeout ==
    /\ pc["main"] = "wait_upower"
    /\ pc["worker"] # "idle"
    /\ attempts' = Append(attempts, <<"upower", FALSE>>)
    /\ ev' = [ev EXCEPT ![FirstFree] = ev["worker"], !["worker"] = NoEval]
    /\ pc' = [pc EXCEPT !["main"] = "try_acpid", ![FirstFree] = pc["worker"],
                        !["worker"] = "none"]
    /\ inEval' = (inEval \ {"worker"}) \cup {FirstFree}
    /\ UNCHANGED <<retained, monitoring_started, regVars, healthVars, checkVars,
                   loopVars, notifVars, envVars, sysfsVars, orderVars, obsHist,
                   writeVars, signals, partialOwed>>

\* Mutant of TryAcpid: the `return True` of utils.py:474 left out, so a
\* successful acpid Init still falls through to pyudev.
TryAcpidNoReturn ==
    /\ pc["main"] = "try_acpid"
    /\ \E ok \in BOOLEAN :
         /\ attempts' = Append(attempts, <<"acpid", ok>>)
         /\ IF ok
              THEN /\ RetainWithMarker("acpid")
                   /\ pc' = [pc EXCEPT !["main"] = "try_pyudev", !["worker"] = "idle"]
              ELSE /\ pc' = [pc EXCEPT !["main"] = "try_pyudev"]
                   /\ UNCHANGED <<retained, monitoring_started, regVars>>
    /\ UNCHANGED <<healthVars, checkVars, loopVars, notifVars, envVars, sysfsVars,
                   orderVars, evalVars, writeVars, signals, partialOwed>>

\* utils.py:457-481 with acpid.py:33-126.
TryAcpid ==
    /\ pc["main"] = "try_acpid"
    /\ \E ok \in BOOLEAN :
         /\ attempts' = Append(attempts, <<"acpid", ok>>)
         /\ IF ok
              THEN /\ RetainWithMarker("acpid")
                   /\ pc' = [pc EXCEPT !["main"] = "health", !["worker"] = "idle"]
              ELSE /\ pc' = [pc EXCEPT !["main"] = "try_pyudev"]
                   /\ UNCHANGED <<retained, monitoring_started, regVars>>
    /\ UNCHANGED <<healthVars, checkVars, loopVars, notifVars, envVars, sysfsVars,
                   orderVars, evalVars, writeVars, signals, partialOwed>>

\* utils.py:483-502 with _start_pyudev_monitoring (utils.py:564-664): the udev
\* thread itself is registered (line 649), before its is_alive() test (line 653).
TryPyudev ==
    /\ pc["main"] = "try_pyudev"
    /\ \E outcome \in {"ok", "thread_died", "no_pyudev"} :
         /\ attempts' = Append(attempts, <<"pyudev", outcome = "ok">>)
         /\ MONITORING_THREADS' = IF outcome = "no_pyudev" THEN MONITORING_THREADS
                                  ELSE MONITORING_THREADS \cup {"udev"}
         /\ IF outcome = "ok"
              THEN /\ retained' = "pyudev"
                   /\ monitoring_started' = TRUE
                   /\ workerAlive' = TRUE
                   /\ pc' = [pc EXCEPT !["main"] = "health", !["worker"] = "idle"]
              ELSE /\ pc' = [pc EXCEPT !["main"] = "health"]
                   /\ UNCHANGED <<retained, monitoring_started, workerAlive>>
    /\ UNCHANGED <<healthVars, checkVars, loopVars, notifVars, envVars, sysfsVars,
                   orderVars, evalVars, writeVars, signals, partialOwed>>

----------------------------------------------------------------------------
(* Policy evaluation, the part every thread runs the same way *)

\* notification.py:71-81: should_throttle reads the clock and the cooldown map.
\* A throttled kind is dropped; otherwise the thread goes on to lines 83-85.
ThrottleCheck(t) ==
    /\ pc[t] = "notify"
    /\ ev[t].kinds # <<>>
    /\ IF Throttled(Head(ev[t].kinds), clock)
         THEN /\ ev' = [ev EXCEPT ![t].kinds = Tail(@)]
              /\ pc' = pc
         ELSE /\ ev' = [ev EXCEPT ![t].ct = clock]
              /\ pc' = [pc EXCEPT ![t] = "thr_write"]
    /\ UNCHANGED <<supVars, regVars, healthVars, checkVars, loopVars, notifVars,
                   envVars, sysfsVars, orderVars, inEval, obsHist, writeVars,
                   signals, partialOwed>>

\* notification.py:83-85 and the send_notification that follows the False return
\* (notification.py:115-121 and its siblings).
ThrottleWrite(t) ==
    /\ pc[t] = "thr_write"
    /\ LET kind == Head(ev[t].kinds)
           at == ev[t].ct
       IN /\ LAST_NOTIFICATION' = [LAST_NOTIFICATION EXCEPT ![kind] = at]
          /\ sentLast' = [sentLast EXCEPT ![kind] = at]
          /\ dupSent' = (dupSent \/ (/\ sentLast[kind] # Absent
                                     /\ Dist(at, sentLast[kind]) < notification_cooldown))
    /\ ev' = [ev EXCEPT ![t].kinds = Tail(@)]
    /\ pc' = [pc EXCEPT ![t] = "notify"]
    /\ UNCHANGED <<supVars, regVars, healthVars, checkVars, loopVars, envVars,
                   sysfsVars, orderVars, inEval, obsHist, writeVars, signals,
                   partialOwed>>

\* The record an evaluation writes back (utils.py:373-378, main.py:112-117).
WrittenRecord(t) ==
    [bp |-> ev[t].bp, ac |-> ev[t].ac, pbp |-> ev[t].pbp, pac |-> ev[t].pac]

----------------------------------------------------------------------------
(* The main loop, main.py:233-292 *)

\* Mutant of HealthCheckStep: the `if not event_monitoring_failed` guard of
\* main.py:243 left out, so the warning is logged at every failed check.
HealthCheckStepWarnsEveryTime(alive) ==
    /\ pc["main"] = "health"
    /\ IF monitoring_started /\ monitoring_check_counter % CheckEvery = 0
         THEN IF ~alive
                THEN /\ warnLog' = warnLog + 1
                     /\ event_monitoring_failed' = TRUE
                     /\ UNCHANGED recoverLog
                ELSE IF event_monitoring_failed
                       THEN /\ recoverLog' = recoverLog + 1
                            /\ event_monitoring_failed' = FALSE
                            /\ UNCHANGED warnLog
                       ELSE UNCHANGED <<warnLog, recoverLog, event_monitoring_failed>>
         ELSE UNCHANGED <<warnLog, recoverLog, event_monitoring_failed>>
    /\ monitoring_check_counter' = (monitoring_check_counter + 1) % CheckEvery
    /\ pc' = [pc EXCEPT !["main"] = "read"]

\* Mutant of HealthCheckStep: a failed check met with the flag already set
\* clears it and logs the recovery.
HealthCheckStepForgets(alive) ==
    /\ pc["main"] = "health"
    /\ IF monitoring_started /\ monitoring_check_counter % CheckEvery = 0
         THEN IF event_monitoring_failed
                THEN /\ recoverLog' = recoverLog + 1
                     /\ event_monitoring_failed' = FALSE
                     /\ UNCHANGED warnLog
                ELSE IF ~alive
                       THEN /\ warnLog' = warnLog + 1
                            /\ event_monitoring_failed' = TRUE
                            /\ UNCHANGED recoverLog
                       ELSE UNCHANGED <<warnLog, recoverLog, event_monitoring_failed>>
         ELSE UNCHANGED <<warnLog, recoverLog, event_monitoring_failed>>
    /\ monitoring_check_counter' = (monitoring_check_counter + 1) % CheckEvery
    /\ pc' = [pc EXCEPT !["main"] = "read"]

\* main.py:240-252: the health check and its two log transitions, given the
\* result of the liveness check.
HealthCheckStep(alive) ==
    /\ pc["main"] = "health"
    /\ IF monitoring_started /\ monitoring_check_counter % CheckEvery = 0
         THEN IF ~alive
                THEN IF ~event_monitoring_failed
                       THEN /\ warnLog' = warnLog + 1
                            /\ event_monitoring_failed' = TRUE
                            /\ UNCHANGED recoverLog
                       ELSE UNCHANGED <<warnLog, recoverLog, event_monitoring_failed>>
                ELSE IF event_monitoring_failed
                       THEN /\ recoverLog' = recoverLog + 1
                            /\ event_monitoring_failed' = FALSE
                            /\ UNCHANGED warnLog
                       ELSE UNCHANGED <<warnLog, recoverLog, event_monitoring_failed>>
         ELSE UNCHANGED <<warnLog, recoverLog, event_monitoring_failed>>
    /\ monitoring_check_counter' = (monitoring_check_counter + 1) % CheckEvery
    /\ pc' = [pc EXCEPT !["main"] = "read"]

HealthCheckDue == monitoring_started /\ monitoring_check_counter % CheckEvery = 0

\* main.py:240-252 with utils.py:505-523: the check prunes the registry.
MainHealthCheck ==
    /\ HealthCheckStep(check_monitoring_threads)
    /\ MONITORING_THREADS' = IF HealthCheckDue THEN PrunedThreads
                             ELSE MONITORING_THREADS
    /\ UNCHANGED <<supVars, workerAlive, checkVars, loopVars, notifVars, envVars,
                   sysfsVars, orderVars, evalVars, writeVars, signals, partialOwed>>

\* main.py:255 -> main.py:109-117: read the status, take the previous values
\* from the dict `state` is bound to.
MainRead ==
    /\ pc["main"] = "read"
    /\ BeginEval("main", envPercent, envAc, MainState, "poll", 0)
    /\ pc' = [pc EXCEPT !["main"] = "notify"]
    /\ UNCHANGED <<supVars, regVars, healthVars, checkVars, loopVars, notifVars,
                   envVars, sysfsVars, orderVars, writeVars, signals, partialOwed>>

\* main.py:128-132 and the assignment of main.py:255: the brightness is set and
\* `state` is rebound to the new dict.
MainFinish ==
    /\ pc["main"] = "notify"
    /\ ev["main"].kinds = <<>>
    /\ brightness' = get_target_brightness(ev["main"].bp, ev["main"].ac)
    /\ state' = WrittenRecord("main")
    /\ stateIsShared' = FALSE
    /\ lastWrite' = WrittenRecord("main")
    /\ inEval' = inEval \ {"main"}
    /\ pc' = [pc EXCEPT !["main"] = "backoff"]
    /\ UNCHANGED <<supVars, regVars, healthVars, checkVars, sleep_duration,
                   BG_CURRENT_SLEEP, notifVars, envVars, sysfsVars, orderVars, ev,
                   obsHist, sharedState, signals, partialOwed>>

\* What subprocess.run(..., check=True) of a sink's command meets besides
\* success: the command exits non-zero (CalledProcessError), the executable is
\* not there (FileNotFoundError), or another OSError (the file is not
\* executable, the fork fails).
SinkFailures == {"exit_nonzero", "not_found", "os_error"}

\* brightness.py:251-284: the control method, detected once and then cached.
BrightnessMethods == {"brightnessctl", "light", "xbacklight", "sysfs", "none"}

\* notification.py:51-57: the except names SubprocessError and
\* FileNotFoundError; any other exception leaves the function.
send_notification(outcome) ==
    IF outcome = "ok" THEN "True"
    ELSE IF outcome \in {"exit_nonzero", "not_found"} THEN "False"
    ELSE "raised"

\* brightness.py:166-248: the three tool branches catch SubprocessError only;
\* the sysfs branch catches OSError and ValueError around all of it (the sudo
\* call included); with no method nothing is run.
set_brightness(method, outcome) ==
    IF method = "none" THEN "False"
    ELSE IF outcome = "ok" THEN "True"
    ELSE IF method = "sysfs" THEN "False"
    ELSE IF outcome = "exit_nonzero" THEN "False"
    ELSE "raised"

\* The record of a sink's failure in the poll loop.
SinkCall(fn, outcome, result) ==
    [fn |-> fn, thread |-> "main", outcome |-> outcome, result |-> result]

\* notification.py:83-85 then a send_notification that fails, in the poll
\* iteration (main.py:120-126): the cooldown map is already written; a False
\* return goes on to the next rule, an exception leaves notify_status_change,
\* check_battery_and_adjust_brightness and _main_impl, and main
\* (main.py:170-172) logs it and exits.
MainSendFails ==
    /\ pc["main"] = "thr_write"
    /\ \E outcome \in SinkFailures :
         LET result == send_notification(outcome)
         IN /\ call' = SinkCall("send_notification", outcome, result)
            /\ IF result = "raised"
                 THEN /\ pc' = [pc EXCEPT !["main"] = "exited"]
                      /\ ev' = [ev EXCEPT !["main"] = NoEval]
                      /\ inEval' = inEval \ {"main"}
                 ELSE /\ pc' = [pc EXCEPT !["main"] = "notify"]
                      /\ ev' = [ev EXCEPT !["main"].kinds = Tail(@)]
                      /\ UNCHANGED inEval
    /\ LAST_NOTIFICATION' =
         [LAST_NOTIFICATION EXCEPT ![Head(ev["main"].kinds)] = ev["main"].ct]
    /\ UNCHANGED <<supVars, regVars, healthVars, checkResults, lockVars, config, reader,
                   loopVars, sentLast, dupSent, envVars, sysfsVars, orderVars,
                   obsHist, writeVars, signals, partialOwed>>

\* main.py:128-132 with a set_brightness that fails: a False return is
\* dropped (main.py:130) and the iteration ends as in MainFinish, the level
\* unchanged; an exception leaves adjust_brightness (brightness.py:50),
\* check_battery_and_adjust_brightness before its return and _main_impl, and
\* main (main.py:170-172) logs it and exits.
MainBrightnessFails ==
    /\ pc["main"] = "notify"
    /\ ev["main"].kinds = <<>>
    /\ \E method \in BrightnessMethods, outcome \in SinkFailures :
         LET result == set_brightness(method, outcome)
         IN /\ call' = SinkCall("set_brightness", outcome, result)
            /\ IF result = "raised"
                 THEN /\ pc' = [pc EXCEPT !["main"] = "exited"]
                      /\ UNCHANGED <<state, stateIsShared, lastWrite>>
                 ELSE /\ pc' = [pc EXCEPT !["main"] = "backoff"]
                      /\ state' = WrittenRecord("main")
                      /\ stateIsShared' = FALSE
                      /\ lastWrite' = WrittenRecord("main")
    /\ inEval' = inEval \ {"main"}
    /\ UNCHANGED <<supVars, regVars, healthVars, checkResults, lockVars, config, reader,
                   sleep_duration, BG_CURRENT_SLEEP, notifVars, envVars,
                   sysfsVars, orderVars, ev, obsHist, sharedState, brightness,
                   signals, partialOwed>>

\* main.py:257-265: change detection.
HasChanged(rec) == IF rec.pbp # rec.bp \/ rec.pac # rec.ac THEN 1 ELSE 0

\* The record of one call of get_sleep_duration: its arguments, the interval
\* stored before it, and what it returned.
SleepCall(battery_percent, has_changed) ==
    [fn |-> "get_sleep_duration", bp |-> battery_percent,
     has_changed |-> has_changed, stored |-> BG_CURRENT_SLEEP,
     result |-> get_sleep_duration(battery_percent, has_changed),
     warned |-> FALSE]

\* main.py:257-288: change detection, get_sleep_duration, validation (with its
\* warning), the floor while events are trusted, and the copy of current into
\* previous. An exception of get_sleep_duration leaves _main_impl; main
\* (main.py:170-172) logs it and exits.
MainBackoff ==
    /\ pc["main"] = "backoff"
    /\ LET has_changed == HasChanged(state)
           d == get_sleep_duration(state.bp, has_changed)
       IN /\ BG_CURRENT_SLEEP' = StoredAfter(state.bp, has_changed)
          /\ IF d = Raised
               THEN /\ call' = SleepCall(state.bp, has_changed)
                    /\ pc' = [pc EXCEPT !["main"] = "exited"]
                    /\ UNCHANGED <<sleep_duration, state>>
               ELSE /\ call' = [SleepCall(state.bp, has_changed)
                                  EXCEPT !.warned = InvalidSleep(d)]
                    /\ sleep_duration' =
                         FlooredSleep(ValidatedSleep(d), monitoring_started,
                                      event_monitoring_failed)
                    /\ state' = [state EXCEPT !.pbp = state.bp, !.pac = state.ac]
                    /\ pc' = [pc EXCEPT !["main"] = "sleep"]
    /\ UNCHANGED <<supVars, regVars, healthVars, checkResults, lockVars, config, reader,
                   stateIsShared, notifVars, envVars, sysfsVars, orderVars,
                   evalVars, writeVars, signals, partialOwed>>

\* Mutant of MainSleep: an event-driven keep-alive mode in which the loop
\* waits for the event source instead of a timed sleep while it is trusted.
MainSleepKeepAlive ==
    /\ pc["main"] = "sleep"
    /\ ~(monitoring_started /\ ~event_monitoring_failed)
    /\ pc' = [pc EXCEPT !["main"] = "health"]
    /\ UNCHANGED <<supVars, regVars, healthVars, checkVars, loopVars, notifVars,
                   envVars, sysfsVars, orderVars, evalVars, writeVars, signals,
                   partialOwed>>

\* main.py:292: time.sleep(sleep_duration) returns.
MainSleep ==
    /\ pc["main"] = "sleep"
    /\ pc' = [pc EXCEPT !["main"] = "health"]
    /\ UNCHANGED <<supVars, regVars, healthVars, checkVars, loopVars, notifVars,
                   envVars, sysfsVars, orderVars, evalVars, writeVars, signals,
                   partialOwed>>

----------------------------------------------------------------------------
(* The environment *)

\* The charger is plugged or unplugged, or the charge crosses to another level.
EnvChange ==
    /\ envChanges < MaxEnvChanges
    /\ envChanges' = envChanges + 1
    /\ \/ /\ envAc' \in AcValues \ {envAc}
          /\ UNCHANGED envPercent
       \/ /\ envPercent' \in PercentValues \ {envPercent}
          /\ UNCHANGED envAc
    /\ UNCHANGED <<pc, supVars, regVars, healthVars, checkVars, loopVars,
                   notifVars, clock, sysfsVars, orderVars, evalVars, writeVars,
                   signals, partialOwed>>

\* Time passes.
Tick ==
    /\ clock + TickSeconds <= MaxClock
    /\ clock' = clock + TickSeconds
    /\ UNCHANGED <<pc, supVars, regVars, healthVars, checkVars, loopVars,
                   notifVars, envPercent, envAc, envChanges, sysfsVars, orderVars,
                   evalVars, writeVars, signals, partialOwed>>

\* The retained backend's worker ends: acpi_listen exits (acpid.py:103-104), the
\* GLib loop or the udev poll raises (upower.py:245, utils.py:643), the sysfs
\* poller's outer handler is reached (fast_power_monitor.py:277).
WorkerDies ==
    /\ pc["worker"] = "idle"
    /\ retained # "none"
    /\ workerAlive
    /\ workerAlive' = FALSE
    /\ pc' = [pc EXCEPT !["worker"] = "dead"]
    /\ UNCHANGED <<supVars, MONITORING_THREADS, healthVars, checkVars, loopVars,
                   notifVars, envVars, sysfsVars, orderVars, evalVars, writeVars,
                   signals, partialOwed>>

\* utils.py:343-502 start_monitoring.
StartMonitoring ==
    TryFast \/ TryUPower \/ UPowerReady \/ UPowerTimeout \/ TryAcpid \/ TryPyudev

MainThread ==
    \/ StartMonitoring
    \/ MainHealthCheck \/ MainRead
    \/ ThrottleCheck("main") \/ ThrottleWrite("main")
    \/ MainFinish \/ MainBackoff \/ MainSleep

----------------------------------------------------------------------------
(* The lock file, main.py:185-196 and utils.py:76-235 *)

\* Everything of the program but the lock file and the processes' positions.
programVars ==
    <<pc, supVars, regVars, healthVars, checkResults, config, call, reader,
      loopVars, notifVars, envVars, sysfsVars, orderVars, evalVars, writeVars,
      signals, partialOwed>>

\* os.kill(pid, 0) succeeds and /proc/<pid>/cmdline names the application
\* (utils.py:148-172): the PID is that of a started process that has not exited.
RunsBatteryGuardian(pid) ==
    pid \in Instances /\ instance[pid].pc \notin {"none", "exited"}

\* utils.py:125-126: check_lock, the existence test.
CheckLockExists(p) ==
    /\ instance[p].pc = "check_lock"
    /\ instance' = [instance EXCEPT ![p].pc =
                       IF lock_file = LockAbsent THEN "create_lock_file"
                       ELSE "check_read"]
    /\ UNCHANGED <<lock_file, programVars>>

\* utils.py:130-143 and 184-191: the file is read. Gone meanwhile (open
\* raises), or no number in it: it is unlinked and check_lock returns True;
\* the process's own PID: True; another PID: kept for the liveness test.
CheckLockRead(p) ==
    /\ instance[p].pc = "check_read"
    /\ IF lock_file \in {LockAbsent, BadText}
         THEN /\ lock_file' = LockAbsent
              /\ instance' = [instance EXCEPT ![p].pc = "create_lock_file"]
         ELSE IF lock_file = p
           THEN /\ instance' = [instance EXCEPT ![p].pc = "create_lock_file"]
                /\ UNCHANGED lock_file
           ELSE /\ instance' = [instance EXCEPT ![p] = [pc |-> "check_kill",
                                                        pid |-> lock_file]]
                /\ UNCHANGED lock_file
    /\ UNCHANGED programVars

\* utils.py:145-182: the PID read is alive and is the application: check_lock
\* returns False and main.py:187-191 exits; otherwise the lock is stale, the
\* file now at that path is unlinked and check_lock returns True.
CheckLockKill(p) ==
    /\ instance[p].pc = "check_kill"
    /\ IF RunsBatteryGuardian(instance[p].pid)
         THEN /\ instance' = [instance EXCEPT ![p].pc = "cleanup"]
              /\ UNCHANGED lock_file
         ELSE /\ instance' = [instance EXCEPT ![p].pc = "create_lock_file"]
              /\ lock_file' = LockAbsent
    /\ UNCHANGED programVars

\* utils.py:89: create_lock_file, the existence test.
CreateLockExists(p) ==
    /\ instance[p].pc = "create_lock_file"
    /\ instance' = [instance EXCEPT ![p].pc =
                       IF lock_file = LockAbsent THEN "create_write"
                       ELSE "create_read"]
    /\ UNCHANGED <<lock_file, programVars>>

\* utils.py:90-103: the file exists: True only if it holds the process's own
\* PID; with another content, or gone meanwhile, False and main.py:194-196
\* exits.
CreateLockRead(p) ==
    /\ instance[p].pc = "create_read"
    /\ instance' = [instance EXCEPT ![p].pc =
                       IF lock_file = p THEN "loop" ELSE "cleanup"]
    /\ UNCHANGED <<lock_file, programVars>>

\* utils.py:106-109: open(lock_file, "w") creates or truncates the file and
\* the PID is written; True, and the process goes on to its loop.
CreateLockWrite(p) ==
    /\ instance[p].pc = "create_write"
    /\ lock_file' = p
    /\ instance' = [instance EXCEPT ![p].pc = "loop"]
    /\ UNCHANGED programVars

\* main.py:146-151: a termination signal ends a running process.
InstanceStops(p) ==
    /\ instance[p].pc = "loop"
    /\ instance' = [instance EXCEPT ![p].pc = "cleanup"]
    /\ UNCHANGED <<lock_file, programVars>>

\* main.py:77-90 and utils.py:198-235: at exit the lock file is removed if it
\* holds the process's own PID.
Cleanup(p) ==
    /\ instance[p].pc = "cleanup"
    /\ lock_file' = IF lock_file = p THEN LockAbsent ELSE lock_file
    /\ instance' = [instance EXCEPT ![p].pc = "exited"]
    /\ UNCHANGED programVars

\* Two processes are started, with no lock file, a stale one, or a damaged one.
LockInit ==
    /\ InitProgram
    /\ reader = QuietReader
    /\ config = DefaultConfig
    /\ lock_file \in {LockAbsent, StalePid, BadText}
    /\ instance = [p \in Instances |-> [pc |-> "check_lock", pid |-> LockAbsent]]

LockNext ==
    \E p \in Instances :
        \/ CheckLockExists(p) \/ CheckLockRead(p) \/ CheckLockKill(p)
        \/ CreateLockExists(p) \/ CreateLockRead(p) \/ CreateLockWrite(p)
        \/ InstanceStops(p) \/ Cleanup(p)

LockSpec == LockInit /\ [][LockNext]_vars

----------------------------------------------------------------------------
(* The event backends' workers *)

SecondFree ==
    LET rest == FreeSlots \ {CHOOSE i \in FreeSlots : \A j \in FreeSlots : i <= j}
    IN RefresherOrder[CHOOSE i \in rest : \A j \in rest : i <= j]

\* A thread handed to threading.Thread(...).start(); gen is the number of the AC
\* change it was spawned for.
Spawned(role, ac, gen) == [NoEval EXCEPT !.role = role, !.ac = ac, !.gen = gen]

\* fast_power_monitor.py:224-276: one pass of the sysfs poller that finds the
\* online flag changed (or read for the first time) and spawns the two updates.
SysfsPoll ==
    /\ retained = "fast_sysfs"
    /\ pc["worker"] = "idle"
    /\ last_ac_online = "None" \/ last_ac_online # envAc
    /\ Cardinality(FreeSlots) >= 2
    /\ last_ac_online' = envAc
    /\ acGen' = acGen + 1
    /\ ev' = [ev EXCEPT ![FirstFree] = Spawned("sysfs_notify", "Unknown", acGen + 1),
                        ![SecondFree] = Spawned("sysfs_full", "Unknown", acGen + 1)]
    /\ pc' = [pc EXCEPT ![FirstFree] = "start", ![SecondFree] = "start"]
    /\ UNCHANGED <<supVars, regVars, healthVars, checkVars, loopVars, notifVars,
                   envVars, orderVars, inEval, obsHist, writeVars, signals,
                   partialOwed>>

\* fast_power_monitor.py:108-129: the D-Bus fallback's handler delivers the
\* fresh AC status with the cached percent.
DbusAcSignal ==
    /\ retained = "fast_dbus"
    /\ pc["worker"] = "idle"
    /\ signals < MaxSignals
    /\ FreeSlots # {}
    /\ signals' = signals + 1
    /\ BeginEval("worker", sharedState.bp, envAc, sharedState, "partial", 0)
    /\ pc' = [pc EXCEPT !["worker"] = "notify"]
    /\ UNCHANGED <<supVars, regVars, healthVars, checkVars, loopVars, notifVars,
                   envVars, sysfsVars, orderVars, writeVars, partialOwed>>

\* upower.py:135-188: the fast path for the AC adapter's path (cached percent),
\* the normal path for every other signal (a full status read).
UPowerSignal ==
    /\ retained = "upower"
    /\ pc["worker"] = "idle"
    /\ signals < MaxSignals
    /\ FreeSlots # {}
    /\ signals' = signals + 1
    /\ \E path \in {"ac_adapter", "battery"} :
         IF path = "ac_adapter"
           THEN BeginEval("worker", sharedState.bp, envAc, sharedState,
                          "partial_upower", 0)
           ELSE BeginEval("worker", envPercent, envAc, sharedState, "full_inline", 0)
    /\ pc' = [pc EXCEPT !["worker"] = "notify"]
    /\ UNCHANGED <<supVars, regVars, healthVars, checkVars, loopVars, notifVars,
                   envVars, sysfsVars, orderVars, writeVars, partialOwed>>

\* acpid.py:70-90: a battery/AC line from acpi_listen.
AcpiEvent ==
    /\ retained = "acpid"
    /\ pc["worker"] = "idle"
    /\ signals < MaxSignals
    /\ signals' = signals + 1
    /\ BeginEval("worker", envPercent, envAc, sharedState, "full_inline", 0)
    /\ pc' = [pc EXCEPT !["worker"] = "notify"]
    /\ UNCHANGED <<supVars, regVars, healthVars, checkVars, loopVars, notifVars,
                   envVars, sysfsVars, orderVars, writeVars, partialOwed>>

\* utils.py:591-638: a power_supply event from udev, processed in line.
UdevEvent ==
    /\ retained = "pyudev"
    /\ pc["worker"] = "idle"
    /\ signals < MaxSignals
    /\ signals' = signals + 1
    /\ BeginEval("worker", envPercent, envAc, sharedState, "full_inline", 0)
    /\ pc' = [pc EXCEPT !["worker"] = "notify"]
    /\ UNCHANGED <<supVars, regVars, healthVars, checkVars, loopVars, notifVars,
                   envVars, sysfsVars, orderVars, writeVars, partialOwed>>

\* utils.py:389-394 (utils.py:625-632 for udev): brightness, then state.update;
\* after a fast partial update the handler spawns the background refresh
\* (fast_power_monitor.py:140-144, upower.py:164-168).
WorkerFinish ==
    /\ pc["worker"] = "notify"
    /\ ev["worker"].kinds = <<>>
    /\ brightness' = get_target_brightness(ev["worker"].bp, ev["worker"].ac)
    /\ sharedState' = WrittenRecord("worker")
    /\ lastWrite' = WrittenRecord("worker")
    /\ inEval' = inEval \ {"worker"}
    /\ partialOwed' = IF ev["worker"].role \in {"partial", "partial_upower"}
                        THEN partialOwed + 1 ELSE partialOwed
    /\ IF ev["worker"].role = "partial"
         THEN /\ ev' = [ev EXCEPT !["worker"] = NoEval,
                                  ![FirstFree] = Spawned("full", "Unknown", 0)]
              /\ pc' = [pc EXCEPT !["worker"] = "idle", ![FirstFree] = "start"]
         ELSE IF ev["worker"].role = "partial_upower"
           THEN /\ ev' = [ev EXCEPT !["worker"] = NoEval,
                                    ![FirstFree] = Spawned("undefined_name", "Unknown", 0)]
                /\ pc' = [pc EXCEPT !["worker"] = "idle", ![FirstFree] = "start"]
           ELSE /\ ev' = [ev EXCEPT !["worker"] = NoEval]
                /\ pc' = [pc EXCEPT !["worker"] = "idle"]
    /\ UNCHANGED <<supVars, regVars, healthVars, checkVars, loopVars, notifVars,
                   envVars, sysfsVars, orderVars, obsHist, signals>>

\* A spawned thread starts running its target:
\*   fast_power_monitor.py:291-299 get_complete_status_and_notify (fresh percent,
\*     and the poller's ac_status, which the lambda of line 246 reads when the
\*     thread runs it: the value of the poller's latest detected change),
\*   fast_power_monitor.py:281-286 and 93-98 get_complete_status (full read),
\*   upower.py:165, whose lambda names get_complete_status, which upower.py does
\*     not define: the thread ends with NameError and delivers nothing.
RefresherRun(t) ==
    /\ pc[t] = "start"
    /\ IF ev[t].role = "undefined_name"
         THEN /\ ev' = [ev EXCEPT ![t] = NoEval]
              /\ pc' = [pc EXCEPT ![t] = "free"]
              /\ UNCHANGED <<inEval, obsHist>>
         ELSE /\ BeginEval(t, envPercent,
                           IF ev[t].role = "sysfs_notify" THEN last_ac_online ELSE envAc,
                           sharedState, ev[t].role, ev[t].gen)
              /\ pc' = [pc EXCEPT ![t] = "notify"]
    /\ UNCHANGED <<supVars, regVars, healthVars, checkVars, loopVars, notifVars,
                   envVars, sysfsVars, orderVars, writeVars, signals, partialOwed>>

\* utils.py:389-394 at the end of a spawned thread's callback.
RefresherFinish(t) ==
    /\ pc[t] = "notify"
    /\ ev[t].kinds = <<>>
    /\ brightness' = get_target_brightness(ev[t].bp, ev[t].ac)
    /\ sharedState' = WrittenRecord(t)
    /\ lastWrite' = WrittenRecord(t)
    /\ inEval' = inEval \ {t}
    /\ IF ev[t].role \in {"sysfs_notify", "sysfs_full"}
         THEN /\ staleApplied' = (staleApplied \/ ev[t].gen < appliedGen)
              /\ appliedGen' = Max(appliedGen, ev[t].gen)
         ELSE UNCHANGED orderVars
    /\ partialOwed' = IF ev[t].role = "full" THEN Max(partialOwed - 1, 0)
                        ELSE partialOwed
    /\ ev' = [ev EXCEPT ![t] = NoEval]
    /\ pc' = [pc EXCEPT ![t] = "free"]
    /\ UNCHANGED <<supVars, regVars, healthVars, checkVars, loopVars, notifVars,
                   envVars, sysfsVars, obsHist, signals>>

\* The record of an exception raised while an event was processed.
EventException(fn, thread, outcome) ==
    [fn |-> fn, thread |-> thread, outcome |-> outcome]

\* Mutant of WorkerRaises: process_battery_event without its try, so that the
\* exception leaves the handler's loop and ends the worker.
WorkerRaisesUncaught ==
    /\ pc["worker"] = "notify"
    /\ call' = EventException("process_battery_event", "worker", "uncaught")
    /\ ev' = [ev EXCEPT !["worker"] = NoEval]
    /\ inEval' = inEval \ {"worker"}
    /\ workerAlive' = FALSE
    /\ pc' = [pc EXCEPT !["worker"] = "dead"]
    /\ UNCHANGED <<supVars, MONITORING_THREADS, healthVars, checkResults, lockVars, config,
                   reader, loopVars, notifVars, envVars, sysfsVars, orderVars,
                   obsHist, writeVars, signals, partialOwed>>

\* Mutant of WorkerRaises: state.update moved before the two policies, so that
\* the record is already written when one of them raises.
WorkerRaisesAfterUpdate ==
    /\ pc["worker"] = "notify"
    /\ call' = EventException("process_battery_event", "worker", "caught")
    /\ sharedState' = WrittenRecord("worker")
    /\ lastWrite' = WrittenRecord("worker")
    /\ inEval' = inEval \ {"worker"}
    /\ ev' = [ev EXCEPT !["worker"] = NoEval]
    /\ pc' = [pc EXCEPT !["worker"] = "idle"]
    /\ UNCHANGED <<supVars, regVars, healthVars, checkResults, lockVars, config,
                   reader, loopVars, notifVars, envVars, sysfsVars, orderVars,
                   obsHist, brightness, signals, partialOwed>>

\* utils.py:363-402: the callback raises after some of its notifications (a
\* sink raising, notification.py:52, or adjust_brightness, utils.py:391); the
\* except of line 401 logs it, state.update (line 394) is skipped and the
\* callback returns, so the handler goes on as after any callback: the fast
\* paths spawn their refresh (fast_power_monitor.py:140-144, upower.py:164-168).
\* For udev the same try is the handler's own (utils.py:596-640).
WorkerRaises ==
    /\ pc["worker"] = "notify"
    /\ call' = EventException("process_battery_event", "worker", "caught")
    /\ inEval' = inEval \ {"worker"}
    /\ IF ev["worker"].role = "partial"
         THEN /\ ev' = [ev EXCEPT !["worker"] = NoEval,
                                  ![FirstFree] = Spawned("full", "Unknown", 0)]
              /\ pc' = [pc EXCEPT !["worker"] = "idle", ![FirstFree] = "start"]
         ELSE IF ev["worker"].role = "partial_upower"
           THEN /\ ev' = [ev EXCEPT !["worker"] = NoEval,
                                    ![FirstFree] = Spawned("undefined_name", "Unknown", 0)]
                /\ pc' = [pc EXCEPT !["worker"] = "idle", ![FirstFree] = "start"]
           ELSE /\ ev' = [ev EXCEPT !["worker"] = NoEval]
                /\ pc' = [pc EXCEPT !["worker"] = "idle"]
    /\ UNCHANGED <<supVars, regVars, healthVars, checkResults, lockVars, config, reader,
                   loopVars, notifVars, envVars, sysfsVars, orderVars, obsHist,
                   writeVars, signals, partialOwed>>

\* The same in a spawned thread (fast_power_monitor.py:281-288, 291-305): the
\* callback returns and the thread ends.
RefresherRaises(t) ==
    /\ pc[t] = "notify"
    /\ call' = EventException("process_battery_event", t, "caught")
    /\ inEval' = inEval \ {t}
    /\ ev' = [ev EXCEPT ![t] = NoEval]
    /\ pc' = [pc EXCEPT ![t] = "free"]
    /\ UNCHANGED <<supVars, regVars, healthVars, checkResults, lockVars, config, reader,
                   loopVars, notifVars, envVars, sysfsVars, orderVars, obsHist,
                   writeVars, signals, partialOwed>>

\* A signal whose handler raises before it calls the callback: the status read
\* (acpid.py:81, utils.py:602, upower.py:176) or the D-Bus query
\* (fast_power_monitor.py:114-122) fails; the handler's except logs it
\* (acpid.py:91, utils.py:639, upower.py:187, fast_power_monitor.py:145) and
\* the worker waits for the next signal.
EventReadFails ==
    /\ retained \in {"fast_dbus", "upower", "acpid", "pyudev"}
    /\ pc["worker"] = "idle"
    /\ call' = EventException("event_handler", "worker", "caught")
    /\ UNCHANGED <<pc, supVars, regVars, healthVars, checkResults, lockVars, config, reader,
                   loopVars, notifVars, envVars, sysfsVars, orderVars, evalVars,
                   writeVars, signals, partialOwed>>

WorkerThread ==
    \/ SysfsPoll \/ DbusAcSignal \/ UPowerSignal \/ AcpiEvent \/ UdevEvent
    \/ ThrottleCheck("worker") \/ ThrottleWrite("worker") \/ WorkerFinish

RefresherThread(t) ==
    \/ RefresherRun(t) \/ ThrottleCheck(t) \/ ThrottleWrite(t) \/ RefresherFinish(t)

\* The rest of the callback of a UPower thread the supervisor stopped waiting
\* for.
OrphanCallback ==
    \E t \in Refreshers : ThrottleCheck(t) \/ ThrottleWrite(t) \/ RefresherFinish(t)

Environment == EnvChange \/ Tick \/ WorkerDies

\* The supervisor and the poll loop with the backend idle between signals: the
\* fallback chain, the health checks, the back-off, and the worker's death.
Next ==
    \/ MainThread
    \/ ThrottleCheck("worker") \/ ThrottleWrite("worker") \/ WorkerFinish
    \/ Environment

Spec == Init /\ [][Next]_vars


\* The poll loop, until it has slept MaxPolls times, running against the
\* signals of a backend whose worker stays alive, that worker and the threads
\* it spawns; a UPower thread reports within its five seconds.
BoundedSleep == monitoring_check_counter <= MaxPolls /\ MainSleep

EventNext ==
    \/ TryFast \/ TryUPower \/ UPowerReady \/ TryAcpid \/ TryPyudev
    \/ MainHealthCheck \/ MainRead
    \/ ThrottleCheck("main") \/ ThrottleWrite("main")
    \/ MainFinish \/ MainBackoff \/ BoundedSleep
    \/ WorkerThread
    \/ \E t \in Refreshers : RefresherThread(t)
    \/ EnvChange \/ Tick

EventSpec == Init /\ [][EventNext]_vars

\* The same on a machine that starts on battery and goes through one physical
\* transition: the charger is plugged in, or the charge crosses to the other
\* level, once.
OneTransition == envChanges = 0 /\ EnvChange

TransitionNext ==
    \/ TryFast \/ TryUPower \/ UPowerReady \/ TryAcpid \/ TryPyudev
    \/ MainHealthCheck \/ MainRead
    \/ ThrottleCheck("main") \/ ThrottleWrite("main")
    \/ MainFinish \/ MainBackoff \/ BoundedSleep
    \/ WorkerThread
    \/ \E t \in Refreshers : RefresherThread(t)
    \/ OneTransition \/ Tick

TransitionInit == Init /\ envAc = "Disconnected"

TransitionSpec == TransitionInit /\ [][TransitionNext]_vars

\* The same loop with the scheduling the interpreter gives: the main thread and
\* the backend's worker are operating-system threads that keep being scheduled,
\* and time.sleep(sleep_duration) returns.
WorkerCallback == ThrottleCheck("worker") \/ ThrottleWrite("worker") \/ WorkerFinish

\* No step of the loop reads the wall clock except should_throttle, whose two
\* outcomes both occur at a fixed time (first delivery, then a throttled
\* repeat), so the liveness specification leaves the clock where it is.
LiveNext == MainThread \/ WorkerCallback \/ EnvChange \/ WorkerDies

LiveSpec == Init /\ [][LiveNext]_vars /\ WF_vars(MainThread) /\ WF_vars(WorkerCallback)

\* The poll loop with sinks that may fail in the poll iteration.
SinkNext == LiveNext \/ MainSendFails \/ MainBrightnessFails

SinkSpec == Init /\ [][SinkNext]_vars

\* The backend's worker and the threads it spawns, with exceptions raised while
\* events are processed; the main thread only starts the monitoring.
FaultNext ==
    \/ StartMonitoring
    \/ WorkerThread
    \/ \E t \in Refreshers : RefresherThread(t) \/ RefresherRaises(t)
    \/ WorkerRaises \/ EventReadFails
    \/ EnvChange

FaultSpec == Init /\ [][FaultNext]_vars

\* start_monitoring alone, when only the main thread is sure to run on: the
\* UPower thread may wait for ever on a service that does not answer.
StartupNext == StartMonitoring \/ WorkerCallback \/ OrphanCallback \/ EnvChange

StartupSpec == Init /\ [][StartupNext]_vars /\ WF_vars(StartMonitoring)

\* The loop of main.py:240-252 driven by every sequence of liveness results (the
\* result of check_monitoring_threads taken as an input of the loop); a UPower
\* thread reports within its five seconds.
DrivenHealthCheck ==
    /\ HealthCheckDue => Len(checkResults) < MaxChecks
    /\ \E alive \in BOOLEAN :
         /\ HealthCheckStep(alive)
         /\ checkResults' = IF HealthCheckDue THEN Append(checkResults, alive)
                            ELSE checkResults
    /\ UNCHANGED <<supVars, regVars, loopVars, notifVars, envVars, sysfsVars,
                   orderVars, evalVars, writeVars, signals, partialOwed, config,
                   call, reader, lockVars>>

HealthNext ==
    \/ TryFast \/ TryUPower \/ UPowerReady \/ TryAcpid \/ TryPyudev
    \/ DrivenHealthCheck \/ MainRead
    \/ ThrottleCheck("main") \/ ThrottleWrite("main")
    \/ MainFinish \/ MainBackoff \/ MainSleep
    \/ WorkerCallback
    \/ EnvChange

HealthSpec == Init /\ [][HealthNext]_vars

----------------------------------------------------------------------------
(* notify_status_change called directly, by one thread *)

\* A percent on each side of the critical threshold.
NotifyPercents == {9, 25}

\* notification.py:71-81 at the present time: the kind is let through.
NotThrottledNow(kind) == ~Throttled(kind, clock)
ThrottledNow(kind) == Throttled(kind, clock)

\* notification.py:88-168: one call of notify_status_change. The kinds it
\* attempts are distinct, so each should_throttle sees the map as the call
\* found it for its own kind; a kind let through has its time stored
\* (notification.py:83-85) and send_notification called.
CallNotifyStatusChange(bp, pbp, ac, pac) ==
    LET kinds == NotifyKinds(bp, pbp, ac, pac)
        sent == SelectSeq(kinds, NotThrottledNow)
        sentSet == {sent[i] : i \in DOMAIN sent}
    IN /\ call' = [fn |-> "notify_status_change", bp |-> bp, pbp |-> pbp,
                   ac |-> ac, pac |-> pac, at |-> clock,
                   last_before |-> LAST_NOTIFICATION,
                   throttled |-> SelectSeq(kinds, ThrottledNow), sent |-> sent]
       /\ LAST_NOTIFICATION' = [k \in Kinds |-> IF k \in sentSet THEN clock
                                                ELSE LAST_NOTIFICATION[k]]
       /\ sentLast' = [k \in Kinds |-> IF k \in sentSet THEN clock ELSE sentLast[k]]
       /\ dupSent' = (dupSent \/ \E k \in sentSet :
                          /\ sentLast[k] # Absent
                          /\ Dist(clock, sentLast[k]) < notification_cooldown)
       /\ UNCHANGED <<pc, supVars, regVars, healthVars, checkResults, lockVars, config, reader,
                      loopVars, envVars, sysfsVars, orderVars, evalVars, writeVars,
                      signals, partialOwed>>

NotifyCall ==
    \E bp \in NotifyPercents, pbp \in NotifyPercents, ac \in AcStatus, pac \in AcStatus :
        CallNotifyStatusChange(bp, pbp, ac, pac)

\* Time passes between two calls.
NotifyTick ==
    /\ clock + NotifyStep <= MaxNotifyClock
    /\ clock' = clock + NotifyStep
    /\ UNCHANGED <<pc, supVars, regVars, healthVars, checkVars, loopVars,
                   notifVars, envPercent, envAc, envChanges, sysfsVars, orderVars,
                   evalVars, writeVars, signals, partialOwed>>

NotifyNext == NotifyCall \/ NotifyTick

NotifySpec == Init /\ [][NotifyNext]_vars

\* Percents on each side of the three thresholds of every configuration of
\* ThresholdConfigs.
RulePercents == {9, 15, 25, 95}

\* notify_status_change called at one instant, with the thresholds of a user
\* file: a kind let through by an earlier call is within its cooldown.
RuleCall ==
    \E bp \in RulePercents, pbp \in RulePercents, ac \in AcValues, pac \in AcValues :
        CallNotifyStatusChange(bp, pbp, ac, pac)

RuleInit == InitState /\ config \in ThresholdConfigs

RuleSpec == RuleInit /\ [][RuleCall]_vars

----------------------------------------------------------------------------
(* get_target_brightness called directly *)

\* Every percent of the scale.
BrightnessPercents == 0..100

\* src/modules/brightness.py:53-103: one call get_target_brightness(
\* battery_percent, ac_status, config) with the default configuration.
CallGetTargetBrightness(battery_percent, ac_status) ==
    /\ call' = [fn |-> "get_target_brightness", bp |-> battery_percent,
                ac |-> ac_status,
                result |-> get_target_brightness(battery_percent, ac_status)]
    /\ UNCHANGED <<pc, supVars, regVars, healthVars, checkResults, lockVars, config, reader,
                   loopVars, notifVars, envVars, sysfsVars, orderVars, evalVars,
                   writeVars, signals, partialOwed>>

BrightnessCall ==
    \E battery_percent \in BrightnessPercents, ac_status \in AcStatus :
        CallGetTargetBrightness(battery_percent, ac_status)

BrightnessSpec == Init /\ [][BrightnessCall]_vars

----------------------------------------------------------------------------
(* The fast power monitor's setup, fast_power_monitor.py:26-326 *)

\* What glob and is_file (fast_power_monitor.py:199-213) find under
\* /sys/class/power_supply.
SysfsAdapters == {"no_adapter", "no_online_file", "online_file"}

\* What the D-Bus fallback meets (fast_power_monitor.py:55-85): the bindings
\* cannot be imported, the bus or the UPower service raises, the service lists
\* no AC adapter, or it lists one.
DbusServices == {"import_error", "no_service", "no_adapter", "adapter"}

\* The outcome of a setup: whether it raised, what it returned, and the
\* names of the threads it started, in order.
SetupOutcome(raised, result, started) ==
    [raised |-> raised, result |-> result, started |-> started]

\* tests/test_fast_power_monitor.py:154-157, 194-197: setup_direct_ac_polling
\* replaced by a mock that raises.
DirectRaises == SetupOutcome(TRUE, FALSE, <<>>)

\* Mutant of setup_direct_ac_polling: the is_file test of line 213 left out.
SetupDirectNoFileTest(sysfs) ==
    IF sysfs = "no_adapter" THEN SetupOutcome(FALSE, FALSE, <<>>)
    ELSE SetupOutcome(FALSE, TRUE, <<"SysfsACStatusPoller">>)

\* fast_power_monitor.py:194-326: no adapter directory, or no online file in
\* the first one: False; otherwise the poller thread is created and started
\* (lines 316-319; threads start, here as everywhere in the program) and the
\* result is True.
setup_direct_ac_polling(sysfs) ==
    IF sysfs \in {"no_adapter", "no_online_file"}
      THEN SetupOutcome(FALSE, FALSE, <<>>)
      ELSE SetupOutcome(FALSE, TRUE, <<"SysfsACStatusPoller">>)

\* The D-Bus part, fast_power_monitor.py:52-172: any exception is caught at
\* line 170, no adapter returns False at line 85, otherwise the FastACMonitor
\* thread is started.
DbusFallback(dbus) ==
    IF dbus = "adapter" THEN SetupOutcome(FALSE, TRUE, <<"FastACMonitor">>)
    ELSE SetupOutcome(FALSE, FALSE, <<>>)

\* Mutant of setup_fast_ac_monitoring: no D-Bus fallback, the result is that
\* of the sysfs setup.
SetupFastNoFallback(direct, dbus) ==
    [outcome |-> SetupOutcome(FALSE, direct.result, direct.started),
     dbus_attempted |-> FALSE]

\* fast_power_monitor.py:42-172: the sysfs setup first; True from it is the
\* result (line 47); False from it, or an exception (line 48), goes on to the
\* D-Bus part.
setup_fast_ac_monitoring(direct, dbus) ==
    IF ~direct.raised /\ direct.result
      THEN [outcome |-> SetupOutcome(FALSE, TRUE, direct.started),
            dbus_attempted |-> FALSE]
      ELSE [outcome |-> SetupOutcome(FALSE, DbusFallback(dbus).result,
                                     direct.started \o DbusFallback(dbus).started),
            dbus_attempted |-> TRUE]

\* One call of setup_direct_ac_polling.
CallSetupDirect ==
    /\ \E sysfs \in SysfsAdapters :
         call' = [fn |-> "setup_direct_ac_polling", sysfs |-> sysfs,
                  outcome |-> setup_direct_ac_polling(sysfs)]
    /\ UNCHANGED <<pc, supVars, regVars, healthVars, checkResults, lockVars, config,
                   reader, loopVars, notifVars, envVars, sysfsVars, orderVars,
                   evalVars, writeVars, signals, partialOwed>>

\* One call of setup_fast_ac_monitoring, with the real sysfs setup or with one
\* that raises.
CallSetupFast ==
    /\ \E sysfs \in SysfsAdapters, dbus \in DbusServices :
         \E direct \in {setup_direct_ac_polling(sysfs), DirectRaises} :
            LET out == setup_fast_ac_monitoring(direct, dbus)
            IN call' = [fn |-> "setup_fast_ac_monitoring", direct |-> direct,
                        dbus |-> dbus, outcome |-> out.outcome,
                        dbus_attempted |-> out.dbus_attempted]
    /\ UNCHANGED <<pc, supVars, regVars, healthVars, checkResults, lockVars, config,
                   reader, loopVars, notifVars, envVars, sysfsVars, orderVars,
                   evalVars, writeVars, signals, partialOwed>>

\* The setups called on a machine in any power state.
FastSetupNext == CallSetupDirect \/ CallSetupFast \/ EnvChange

FastSetupSpec == Init /\ [][FastSetupNext]_vars

----------------------------------------------------------------------------
(* check_battery_status called directly *)

\* battery.py:69-91: one call of check_battery_status on the files and the
\* service as they are; the caches keep what the call found.
CallCheckBatteryStatus ==
    LET out == check_battery_status(reader)
    IN /\ call' = [fn |-> "check_battery_status", files |-> reader,
                   raised |-> out.raised, percent |-> out.percent, ac |-> out.ac]
       /\ reader' = [reader EXCEPT !.BATTERY_PATH = out.BATTERY_PATH,
                                   !.AC_ADAPTER_PATH = out.AC_ADAPTER_PATH]
       /\ UNCHANGED <<pc, supVars, regVars, healthVars, checkResults, lockVars, config,
                      loopVars, notifVars, envVars, sysfsVars, orderVars, evalVars,
                      writeVars, signals, partialOwed>>

\* Between two calls one of the files, or the answer of a service that was
\* there at import, becomes another; the record of the last call is dropped.
FilesChange ==
    /\ \/ \E f \in CapacityFiles : reader' = [reader EXCEPT !.capacity = f]
       \/ \E f \in OnlineFiles : reader' = [reader EXCEPT !.online = f]
       \/ \E f \in StatusFiles : reader' = [reader EXCEPT !.status = f]
       \/ /\ reader.upower # UPowerAbsent
          /\ \E u \in UPowerAnswers : reader' = [reader EXCEPT !.upower = u]
    /\ reader' # reader
    /\ call' = NoCall
    /\ UNCHANGED <<pc, supVars, regVars, healthVars, checkResults, lockVars, config,
                   loopVars, notifVars, envVars, sysfsVars, orderVars, evalVars,
                   writeVars, signals, partialOwed>>

\* The module imported (battery.py:22-28) on any machine.
ReaderInit ==
    /\ InitProgram
    /\ InitLock
    /\ config = DefaultConfig
    /\ reader \in [upower : UPowerAnswers \cup {UPowerAbsent},
                    capacity : CapacityFiles, online : OnlineFiles,
                    status : StatusFiles, BATTERY_PATH : {FALSE},
                    AC_ADAPTER_PATH : {FALSE}]

ReaderNext == CallCheckBatteryStatus \/ FilesChange

ReaderSpec == ReaderInit /\ [][ReaderNext]_vars

----------------------------------------------------------------------------
\* The supervisor and the poll loop started with any of the configurations.
ConfigSpec == ConfigInit /\ [][Next]_vars

----------------------------------------------------------------------------
(* get_sleep_duration called directly *)

\* utils.py:298-340: one call get_sleep_duration(battery_percent, ac_status,
\* has_changed, config); the function never reads ac_status.
CallGetSleepDuration(battery_percent, has_changed) ==
    /\ call' = SleepCall(battery_percent, has_changed)
    /\ BG_CURRENT_SLEEP' = StoredAfter(battery_percent, has_changed)
    /\ UNCHANGED <<pc, supVars, regVars, healthVars, checkResults, lockVars, config, reader, state,
                   stateIsShared, sleep_duration, notifVars, envVars, sysfsVars,
                   orderVars, evalVars, writeVars, signals, partialOwed>>

AnyCall ==
    \E battery_percent \in PercentInputs, has_changed \in {0, 1} :
        CallGetSleepDuration(battery_percent, has_changed)

\* A call with the battery above the critical threshold and has_changed = 0.
QuietCall ==
    \E battery_percent \in PercentInputs :
        /\ battery_percent > config.critical_threshold
        /\ CallGetSleepDuration(battery_percent, 0)

\* Any sequence of calls; the caller keeps calling (the main loop's
\* iterations), so a run of quiet calls does not stop short.
BackoffSpec == Init /\ [][AnyCall]_vars /\ WF_vars(QuietCall)

----------------------------------------------------------------------------
(* Properties *)

StartReturned == pc["main"] \notin {"try_fast", "try_upower", "wait_upower",
                                    "try_acpid", "try_pyudev"}
Running == monitoring_started /\ ~event_monitoring_failed
Degraded == monitoring_started /\ event_monitoring_failed
PollingOnly == StartReturned /\ ~monitoring_started

BackendOrder == <<"fast", "upower", "acpid", "pyudev">>
BackendOf(r) == IF r \in {"fast_sysfs", "fast_dbus"} THEN "fast" ELSE r

\* C2: the backends are attempted in the order FastPoll, UPower, acpid, pyudev;
\* every attempt but the last one failed (the chain stops at the first success);
\* start_monitoring reports success exactly when the last attempt succeeded, the
\* retained backend is that one, and failure is reported only after four
\* failed attempts.
C2_FallbackOrder ==
    /\ Len(attempts) <= Len(BackendOrder)
    /\ \A i \in DOMAIN attempts :
         /\ attempts[i][1] = BackendOrder[i]
         /\ i < Len(attempts) => ~attempts[i][2]
    /\ StartReturned =>
         /\ attempts # <<>>
         /\ monitoring_started = attempts[Len(attempts)][2]
         /\ monitoring_started => BackendOf(retained) = attempts[Len(attempts)][1]
         /\ ~monitoring_started =>
              /\ Len(attempts) = Len(BackendOrder)
              /\ retained = "none"

C2_Witness ==
    /\ StartReturned
    /\ attempts = <<<<"fast", FALSE>>, <<"upower", FALSE>>, <<"acpid", TRUE>>>>
    /\ retained = "acpid"

\* C3: once the retained backend's worker is no longer alive, the liveness
\* check returns false, whichever backend was retained.
C3_CheckSeesDeadWorker ==
    (monitoring_started /\ ~workerAlive) => ~check_monitoring_threads

\* The health-check results with the loop's starting condition (healthy) first.
ResultsFromStart == <<TRUE>> \o checkResults
FallingEdges ==
    {i \in 2..Len(ResultsFromStart) : ResultsFromStart[i - 1] /\ ~ResultsFromStart[i]}
RisingEdges ==
    {i \in 2..Len(ResultsFromStart) : ~ResultsFromStart[i - 1] /\ ResultsFromStart[i]}

\* C4: for every sequence of health-check results, the number of "stopped
\* working" warnings is the number of healthy-to-failed edges of the sequence
\* and the number of "recovered" messages the number of failed-to-healthy
\* edges; the supervisor is Degraded exactly when the last result was false.
C4_LogsOnlyOnEdges ==
    /\ warnLog = Cardinality(FallingEdges)
    /\ recoverLog = Cardinality(RisingEdges)
    /\ event_monitoring_failed = ~ResultsFromStart[Len(ResultsFromStart)]

C4_Witness ==
    /\ checkResults = <<FALSE, TRUE>>
    /\ warnLog = 1
    /\ recoverLog = 1
    /\ Running

FourthSucceeded ==
    /\ Len(attempts) = 4
    /\ attempts[4][2]

\* C5: when the first three Inits fail and pyudev's succeeds, start_monitoring
\* reports success with pyudev retained, and the poll loop still runs, each
\* sleep lasting at least 60 seconds while the supervisor is Running.
C5_FourthBackendFloor ==
    FourthSucceeded =>
        /\ monitoring_started
        /\ retained = "pyudev"
        /\ (pc["main"] = "sleep" /\ Running) => sleep_duration >= EventFloor

C5_Witness ==
    /\ FourthSucceeded
    /\ pc["main"] = "sleep"
    /\ Running
    /\ monitoring_check_counter = 2
    /\ sleep_duration = EventFloor
    /\ BG_CURRENT_SLEEP = backoff_initial * backoff_factor

\* C6: at most one thread is inside policy evaluation at any time.
C6_OneEvaluationAtATime == Cardinality(inEval) <= 1

\* C7: at most one notification of a kind is delivered within any cooldown
\* window.
C7_OneDeliveryPerCooldown == ~dupSent

\* C8: whenever no evaluation is in progress, the state record last written
\* holds the most recently obtained observation as current and the
\* observation obtained immediately before it as previous.
C8_StateHoldsLatestPair ==
    inEval = {} =>
        lastWrite = [bp |-> obsHist[2].bp, ac |-> obsHist[2].ac,
                     pbp |-> obsHist[1].bp, pac |-> obsHist[1].ac]

\* C9: the update the sysfs poller spawned for an earlier AC change is never
\* applied after an update it spawned for a later AC change.
C9_SysfsUpdatesInOrder == ~staleApplied

\* C10: once the handler and every thread it spawned have finished, no fast
\* partial update is left without the full-refresh callback that follows it.
C10_PartialIsRefreshed ==
    (pc["worker"] \in {"idle", "dead"} /\ \A t \in Refreshers : pc[t] = "free")
        => partialOwed = 0

\* The last call was one of get_sleep_duration.
SleepCalled == call.fn = "get_sleep_duration"
QuietCalled == SleepCalled /\ call.bp > config.critical_threshold /\ call.has_changed = 0

\* C11: every call with the battery at or below critical_threshold returns
\* critical_polling, whatever has_changed and the stored interval are.
C11_CriticalOverrides ==
    (SleepCalled /\ call.bp <= config.critical_threshold)
        => call.result = config.critical_polling

C11_Witness ==
    /\ SleepCalled
    /\ call.bp = config.critical_threshold
    /\ call.has_changed = 1
    /\ call.stored = config.backoff_max
    /\ call.result = config.critical_polling

\* C12: whenever the main loop is about to sleep with the battery at or below
\* the critical threshold, the duration it sleeps is critical_polling, in every
\* supervisor state.
C12_CriticalSleepIsCriticalPolling ==
    (pc["main"] = "sleep" /\ state.bp <= config.critical_threshold)
        => sleep_duration = config.critical_polling

\* C13: from one quiet call (battery above critical, has_changed = 0) to the
\* next the result does not decrease, never exceeds backoff_max and stays at
\* backoff_max once there; and unless calls that are not quiet keep occurring,
\* the result reaches backoff_max and stays.
C13_QuietGrowth ==
    /\ [](QuietCalled => call.result <= config.backoff_max)
    /\ [][(QuietCalled /\ call'.bp > config.critical_threshold
                       /\ call'.has_changed = 0)
            => /\ call'.result >= call.result
               /\ call.result = config.backoff_max
                    => call'.result = config.backoff_max]_vars
    /\ \/ []<>(SleepCalled /\ ~QuietCalled)
       \/ <>[](QuietCalled /\ call.result = config.backoff_max)

C13_Witness ==
    /\ QuietCalled
    /\ call.stored = config.backoff_max
    /\ call.result = config.backoff_max

\* C14: with the battery above the critical threshold the result is
\* backoff_initial exactly when has_changed = 1, whatever interval was stored.
C14_ResetIffChanged ==
    (SleepCalled /\ call.bp > config.critical_threshold)
        => (call.result = config.backoff_initial <=> call.has_changed = 1)

C14_Witness ==
    /\ SleepCalled
    /\ call.bp > config.critical_threshold
    /\ call.has_changed = 1
    /\ call.stored = config.backoff_max
    /\ call.result = config.backoff_initial

\* C15: after every call the stored interval, when one is stored, lies within
\* [backoff_initial, backoff_max]; one is stored after every call made above
\* the critical threshold, and the interval the next call starts from lies in
\* the range in every case.
C15_StoredInRange ==
    SleepCalled =>
        /\ StoredSleep >= config.backoff_initial
        /\ StoredSleep <= config.backoff_max
        /\ call.bp > config.critical_threshold => BG_CURRENT_SLEEP = call.result

C15_Witness ==
    /\ SleepCalled
    /\ call.bp <= config.critical_threshold
    /\ call.stored = config.backoff_max
    /\ BG_CURRENT_SLEEP = config.backoff_max

\* C16: whenever the main loop is about to sleep, the duration is an integer
\* of at least 10; when get_sleep_duration returned a value that is not an
\* integer or is below 10, the warning was logged and the duration is the safe
\* default of 30 (raised to the 60-second floor while events are trusted), and
\* no warning is logged for a valid value.
C16_SleepIsValidated ==
    pc["main"] = "sleep" =>
        /\ sleep_duration \in Nat
        /\ sleep_duration >= MinSleep
        /\ IF call.result = NonInteger \/ call.result < MinSleep
             THEN /\ call.warned
                  /\ sleep_duration = IF Running THEN EventFloor ELSE SafeDefaultSleep
             ELSE ~call.warned

C16_Witness ==
    /\ pc["main"] = "sleep"
    /\ PollingOnly
    /\ call.result = NonInteger
    /\ call.warned
    /\ sleep_duration = SafeDefaultSleep

\* C17: whatever the configuration, get_sleep_duration never raises and the
\* main loop never ends because of a computed interval.
C17_BadIntervalNeverPropagates ==
    /\ SleepCalled => call.result # Raised
    /\ pc["main"] # "exited"

\* The last call was one of notify_status_change.
NotifyCalled == call.fn = "notify_status_change"
SentKinds == {call.sent[i] : i \in DOMAIN call.sent}
AttemptedKinds == SentKinds \cup {call.throttled[i] : i \in DOMAIN call.throttled}
InCooldownBefore(kind) ==
    /\ call.last_before[kind] # Absent
    /\ call.at - call.last_before[kind] < notification_cooldown

\* C18: a call delivers exactly one critical notification when the percent went
\* from above critical_threshold to at or below it and no critical notification
\* was let through within the cooldown before; it delivers none when the edge
\* is absent (both at or below the threshold included) and none within the
\* cooldown of an earlier one.
C18_CriticalOnEdgeOnce ==
    NotifyCalled =>
        LET edge == call.bp <= critical_threshold /\ call.pbp > critical_threshold
            n == Cardinality({i \in DOMAIN call.sent : call.sent[i] = "critical"})
        IN n = IF edge /\ ~InCooldownBefore("critical") THEN 1 ELSE 0

C18_Witness ==
    /\ NotifyCalled
    /\ call.bp = 9
    /\ call.pbp = 25
    /\ call.last_before["critical"] = 0
    /\ call.at = NotifyStep
    /\ call.sent = <<>>

\* C19: a kind suppressed by the cooldown has its last-fired time set to the
\* time of the suppressed attempt.
C19_SuppressionSlidesWindow ==
    NotifyCalled =>
        \A i \in DOMAIN call.throttled :
            LAST_NOTIFICATION[call.throttled[i]] = call.at

\* C20: a call whose AC status differs from the previous one attempts
\* ac_disconnected when the new status is Disconnected and ac_connected when it
\* is Connected, whatever the previous status was.
C20_AcChangeNotifiesBothWays ==
    (NotifyCalled /\ call.ac # call.pac) =>
        /\ call.ac = "Disconnected" => "ac_disconnected" \in AttemptedKinds
        /\ call.ac = "Connected" => "ac_connected" \in AttemptedKinds

\* The number of notifications of a kind the last call delivered.
SentCount(kind) == Cardinality({i \in DOMAIN call.sent : call.sent[i] = kind})

\* C21: a call whose AC status went from Disconnected to Connected, with
\* neither AC kind within its cooldown, delivers exactly one ac_connected
\* notification and no ac_disconnected notification.
C21_ConnectDeliversOne ==
    (/\ NotifyCalled
     /\ call.pac = "Disconnected"
     /\ call.ac = "Connected"
     /\ ~InCooldownBefore("ac_connected")
     /\ ~InCooldownBefore("ac_disconnected"))
        => SentCount("ac_connected") = 1 /\ SentCount("ac_disconnected") = 0

C21_Witness ==
    /\ NotifyCalled
    /\ call.pac = "Disconnected"
    /\ call.ac = "Connected"
    /\ call.at = MaxNotifyClock
    /\ call.last_before["ac_connected"] = 0
    /\ call.sent = <<"ac_connected">>

\* The condition of a kind by itself (notification.py:111-113, 124-127,
\* 138-141, 152-153, 152 and 161), on the arguments of the last call.
OwnCondition(kind) ==
    CASE kind = "critical" ->
           call.bp <= config.critical_threshold /\ call.pbp > config.critical_threshold
      [] kind = "low" ->
           /\ call.bp <= config.low_threshold
           /\ call.bp > config.critical_threshold
           /\ call.pbp > config.low_threshold
      [] kind = "full" ->
           /\ call.bp >= config.full_battery_threshold
           /\ call.pbp < config.full_battery_threshold
           /\ call.ac = "Connected"
      [] kind = "ac_connected" -> call.ac # call.pac /\ call.ac = "Connected"
      [] kind = "ac_disconnected" ->
           call.ac # call.pac /\ call.ac = "Disconnected" /\ call.pac = "Connected"

\* C22: in one call, with any thresholds, every kind whose own condition holds
\* and which is not within its cooldown is delivered, whichever other kinds
\* are delivered by the same call.
C22_KindsIndependent ==
    NotifyCalled =>
        \A kind \in Kinds :
            (OwnCondition(kind) /\ ~InCooldownBefore(kind)) => SentCount(kind) = 1

C22_Witness ==
    /\ NotifyCalled
    /\ config = ReversedThresholds
    /\ call.sent = <<"critical", "ac_disconnected">>

\* C23: a call delivers one low notification exactly when the percent is above
\* critical_threshold and at or below low_threshold, the previous percent was
\* above low_threshold and the low kind is not within its cooldown; it delivers
\* none when the previous percent was at or below low_threshold.
C23_LowOnEdge ==
    NotifyCalled =>
        /\ SentCount("low") = IF /\ call.bp > config.critical_threshold
                                 /\ call.bp <= config.low_threshold
                                 /\ call.pbp > config.low_threshold
                                 /\ ~InCooldownBefore("low")
                              THEN 1 ELSE 0
        /\ call.pbp <= config.low_threshold => SentCount("low") = 0

C23_Witness ==
    /\ NotifyCalled
    /\ config = DefaultConfig
    /\ call.bp = 15
    /\ call.pbp = 25
    /\ call.sent = <<"low", "ac_connected">>

\* The last call was one of get_target_brightness.
BrightnessCalled == call.fn = "get_target_brightness"

\* C24: with the default configuration every call of get_target_brightness
\* returns a level within 0..100, and of two calls with the same AC status
\* other than Connected the one with the higher percent never returns the
\* lower level.
C24_BrightnessInRangeAndMonotone ==
    /\ [](BrightnessCalled => call.result \in 0..100)
    /\ [][(/\ BrightnessCalled
           /\ call'.fn = "get_target_brightness"
           /\ call.ac # "Connected"
           /\ call'.ac = call.ac
           /\ call.bp <= call'.bp) => call.result <= call'.result]_vars

C24_Witness ==
    /\ BrightnessCalled
    /\ call.ac = "Unknown"
    /\ call.bp = 9
    /\ call.result = 15

\* The levels of the default configuration by range of percent
\* (config.py:79-86 with the thresholds of config.py:94-99 and 71).
LevelRows ==
    {<<85, 100, 95>>, <<70, 84, 85>>, <<60, 69, 70>>, <<50, 59, 60>>,
     <<30, 49, 45>>, <<20, 29, 35>>, <<10, 19, 25>>, <<0, 9, 15>>}

ReaderCalled == call.fn = "check_battery_status"

\* Neither the service nor any of the three files gave a value.
NothingRead ==
    /\ call.files.upower.kind # "pair"
    /\ ParseCapacity(call.files.capacity) = Absent
    /\ ReadOnline(call.files.online) \notin AcValues
    /\ ReadStatus(call.files.status) \notin AcValues

\* C26: a call of check_battery_status never raises, whatever the service and
\* the capacity, online and status files hold, and returns percent 0 and
\* status Unknown when nothing can be read.
C26_ReaderNeverRaises ==
    ReaderCalled =>
        /\ ~call.raised
        /\ NothingRead => call.percent = 0 /\ call.ac = "Unknown"

\* C27: every pair check_battery_status returns has its percent within 0..100
\* and its AC status among Connected, Disconnected, Unknown.
C27_ObservationInRange ==
    (ReaderCalled /\ ~call.raised) =>
        call.percent \in 0..100 /\ call.ac \in AcStatus

ExceptionSeen == call.fn \in {"process_battery_event", "event_handler"}

\* C29: after an exception raised inside the callback or inside a backend's
\* handler the exception has been caught, the worker of the retained backend
\* is alive and takes further events, and the process has not exited.
C29_ExceptionsCaughtAtWorker ==
    ExceptionSeen =>
        /\ call.outcome = "caught"
        /\ retained # "none" => workerAlive /\ pc["worker"] \in {"idle", "notify", "thr_write"}
        /\ pc["main"] # "exited"

C29_Witness ==
    /\ ExceptionSeen
    /\ call.thread = "worker"
    /\ retained = "acpid"
    /\ pc["worker"] = "notify"
    /\ signals = MaxSignals

\* C30: a failure of the notification sink or of the brightness sink during a
\* poll iteration never terminates the main loop.
C30_SinkFailureNeverEndsLoop ==
    call.fn \in {"send_notification", "set_brightness"} => pc["main"] # "exited"

\* C31: at most one process at a time has passed check_lock and
\* create_lock_file and runs the loop, and a process that runs the loop is the
\* one whose PID the lock file holds.
C31_SingleInstance ==
    LET running == {p \in Instances : instance[p].pc = "loop"}
    IN /\ Cardinality(running) <= 1
       /\ \A p \in running : lock_file = p

FastSetupCalled == call.fn = "setup_fast_ac_monitoring"
DirectSucceeded == ~call.direct.raised /\ call.direct.result

\* C32: setup_fast_ac_monitoring returns True without attempting D-Bus when
\* the sysfs setup succeeds; when that fails or raises it attempts D-Bus and
\* returns that attempt's result; it never raises, and returns False when both
\* fail.
C32_SysfsFirstThenDbus ==
    FastSetupCalled =>
        /\ ~call.outcome.raised
        /\ DirectSucceeded => call.outcome.result /\ ~call.dbus_attempted
        /\ ~DirectSucceeded =>
               /\ call.dbus_attempted
               /\ call.outcome.result = (call.dbus = "adapter")

C32_Witness ==
    /\ FastSetupCalled
    /\ call.direct.raised
    /\ call.dbus = "import_error"
    /\ ~call.outcome.result
    /\ call.outcome.started = <<>>

DirectSetupCalled == call.fn = "setup_direct_ac_polling"

\* C33: setup_direct_ac_polling returns False and starts no worker when no AC
\* adapter directory is found or its online file does not exist; otherwise it
\* starts exactly one SysfsACStatusPoller worker and returns True.
C33_OnePollerOrNone ==
    DirectSetupCalled =>
        IF call.sysfs \in {"no_adapter", "no_online_file"}
          THEN ~call.outcome.result /\ call.outcome.started = <<>>
          ELSE call.outcome.result /\ call.outcome.started = <<"SysfsACStatusPoller">>

C33_Witness ==
    /\ DirectSetupCalled
    /\ call.sysfs = "no_online_file"
    /\ ~call.outcome.result

\* C34: the floor of 60 seconds is applied to the sleep duration if and only
\* if event monitoring was started and is not flagged failed; in Degraded and
\* in PollingOnly the loop sleeps the validated value of the scheduler, which
\* can be shorter than 60 seconds.
C34_FloorOnlyWhileTrusted ==
    pc["main"] = "sleep" =>
        LET validated == IF call.result = NonInteger \/ call.result < MinSleep
                           THEN SafeDefaultSleep ELSE call.result
        IN IF Running
             THEN sleep_duration >= EventFloor /\ sleep_duration >= validated
                  /\ sleep_duration \in {EventFloor, validated}
             ELSE (Degraded \/ PollingOnly) /\ sleep_duration = validated

C34_Witness ==
    /\ pc["main"] = "sleep"
    /\ Degraded
    /\ sleep_duration < EventFloor
    /\ sleep_duration = call.result

\* C35: a single physical transition results in at most one delivered
\* notification of its kind: on a machine that goes through one transition no
\* kind is delivered twice, and no thread is let through the cooldown (and so
\* is about to deliver) for a kind that was already delivered.
C35_OneDeliveryPerTransition ==
    /\ ~dupSent
    /\ \A t \in Threads :
          pc[t] = "thr_write" => sentLast[Head(ev[t].kinds)] = Absent

\* Sysfs polling is retained, the poller has seen the latest AC status and
\* every thread it spawned has finished.
SysfsSettled ==
    /\ retained = "fast_sysfs"
    /\ last_ac_online = envAc
    /\ \A t \in Refreshers : pc[t] = "free"

\* C36: once the AC status has stopped changing and every spawned update
\* worker has finished, the shared state's ac_status is the actual AC status.
C36_SettledStateIsActual == SysfsSettled => sharedState.ac = envAc

\* C37: after start_monitoring has returned, no thread left by a backend whose
\* Init reported failure (the UPower thread after the timeout) is running the
\* callback.
C37_OnlyRetainedDelivers ==
    StartReturned => \A t \in Refreshers : ev[t].role # "init"

C39_RaisedCallLeavesState ==
    [][(\/ call' # call /\ call'.fn = "process_battery_event"
        \/ \E t \in Threads \ {"main"} :
              /\ pc[t] \in {"notify", "thr_write"}
              /\ pc'[t] \in {"notify", "thr_write"}
              /\ <<pc'[t], ev'[t]>> # <<pc[t], ev[t]>>)
          => sharedState' = sharedState]_vars

C39_Witness ==
    /\ call.fn = "process_battery_event"
    /\ call.thread = "worker"
    /\ retained = "upower"
    /\ pc["worker"] = "idle"
    /\ signals = MaxSignals
    /\ sharedState # InitialRecord
    /\ sharedState.ac # envAc

====
